---------------------------- MODULE Spec2Model ----------------------------
(***************************************************************************)
(* A model of ezmqp: the subscriber delivery pipeline of Queue (queue.ts), *)
(* the self-healing Channel entity (channel.ts) and the cluster-aware      *)
(* connection manager of Rabbit (connect / close / close listener).        *)
(***************************************************************************)
EXTENDS Integers, Sequences, FiniteSets, TLC

(***************************************************************************)
(* Bounds of the model.                                                    *)
(***************************************************************************)
MaxHandlers == 3      \* handlers given to one sub(h1, ..., hn)
MaxDeliveries == 2    \* messages the server delivers in one behaviour
MaxNodes == 3         \* endpoints of the cluster
MaxRetry == 1         \* largest finite retry budget
MaxDials == 8         \* driver dial calls in one behaviour
MaxLoops == 1         \* connect() calls in progress at the same time
MaxOverlap == 2       \* the same where connect() calls overlap
MaxCalls == 2         \* connect() and close() calls of the user on the broker
MaxConns == 2         \* connections the driver opens in one behaviour
MaxChans == 2         \* underlying channels the driver opens in one behaviour
MaxPend == 1          \* createChannel / consume calls awaiting their reply
MaxSubs == 2          \* consume calls one behaviour issues
MaxExchanges == 2     \* entries of configuration.exchanges
MaxAsserts == 2       \* assert() calls of the user on Exchange and Queue entities

(***************************************************************************)
(* Handler behaviours.  A handler is user code; the model draws what it    *)
(* does from a small family:                                               *)
(*   sigs : the arguments of its successive calls of next                  *)
(*          "undef" = next(), "true" = next(true), "false" = next(false),  *)
(*          "err" = next(new Error())                                      *)
(*   mode : "sync"  = plain function that drops the value next returns;    *)
(*                    its own failure is a synchronous throw               *)
(*          "await" = async function that awaits every next call; its own  *)
(*                    failure is a rejected promise, and it settles at a   *)
(*                    time of its own when nobody awaits its promise       *)
(*   end  : "return" or "throw" (after its calls of next)                  *)
(***************************************************************************)
Signals == {"undef", "true", "false", "err"}

SigSeqs ==
  {<<>>} \cup {<<s>> : s \in Signals}
         \cup {<<"undef", "undef">>, <<"undef", "false">>,
               <<"false", "undef">>, <<"true", "false">>}

HandlerScripts == [sigs : SigSeqs, mode : {"sync", "await"}, end : {"return", "throw"}]

RECURSIVE SeqsUpTo(_, _)
SeqsUpTo(S, n) ==
  IF n = 0 THEN {<<>>}
  ELSE LET shorter == SeqsUpTo(S, n - 1)
       IN  shorter \cup {Append(q, x) : q \in {p \in shorter : Len(p) = n - 1}, x \in S}

Range(q) == {q[i] : i \in 1..Len(q)}

\* The family keeps the evaluation order exact: a handler that still calls
\* next after its first await is awaited by every handler before it (none of
\* them drops the promise, none reaches it through the next(true) cascade).
ScriptOK(hs) ==
  \A i \in 1..Len(hs) :
    (hs[i].mode = "await" /\ Len(hs[i].sigs) >= 2)
      => \A j \in 1..(i - 1) : hs[j].mode = "await" /\ "true" \notin Range(hs[j].sigs)

Scripts == {hs \in SeqsUpTo(HandlerScripts, MaxHandlers) : ScriptOK(hs)}

(***************************************************************************)
(* QueueConfig.deadLetterExchange: an optional string.                     *)
(***************************************************************************)
undefined == "undefined"
DlxValues == {undefined, "", "dlx_hello"}

\* JavaScript truthiness of an optional string, as used by !x and !!x
Truthy(v) == v # undefined /\ v # ""

(***************************************************************************)
(* The subscriber callback of Queue.sub, as a function of what the         *)
(* handlers do, of whether the "__read__" Channel entity holds an open     *)
(* underlying channel (open) and of deadLetterExchange (d).                *)
(* A call returns [st, res]: st is the state of the delivery, res is "ok"  *)
(* (a plain value or a resolved promise), "throw" (synchronous exception)  *)
(* or "reject" (a rejected promise).                                       *)
(*   st.called : the flag of the one-shot closure of makeAck               *)
(*   st.ops    : the ack / nack calls that reached the driver              *)
(*   st.inv    : the handlers invoked, in order                            *)
(*   st.threw, st.aborted : some handler threw or rejected by itself /     *)
(*               some handler called next(false) or next(err)              *)
(*   st.log    : what happened, in order: handler h entered ("enter"),     *)
(*               called next ("next"), got the awaited result of next      *)
(*               ("resume"); an ack / nack reached the driver              *)
(*   st.det    : the code running now was called by code that dropped the  *)
(*               value it returns (nothing awaits its promise)             *)
(***************************************************************************)
Delivery0 == [called |-> FALSE, ops |-> <<>>, inv |-> <<>>, threw |-> FALSE, aborted |-> FALSE,
              log |-> <<>>, det |-> FALSE]

Event(e, h, det) == [e |-> e, h |-> h, det |-> det]

\* Channel.ack(msg, allUpTo = false) and Channel.nack(msg, allUpTo, requeue)
ChannelAck(allUpTo) == [kind |-> "ack", allUpTo |-> allUpTo, requeue |-> FALSE]
ChannelNack(allUpTo, requeue) == [kind |-> "nack", allUpTo |-> allUpTo, requeue |-> requeue]

\* makeAck without its one-shot flag: every call goes to the channel
makeAck_everyCall(sig, open, d, st) ==
  IF ~open THEN [st |-> st, res |-> "throw"]
  ELSE IF sig \in {"undef", "true"}
    THEN [st |-> [st EXCEPT !.ops = Append(@, ChannelAck(FALSE)),
                            !.log = Append(@, Event("ack", 0, FALSE))], res |-> "ok"]
    ELSE [st |-> [st EXCEPT !.ops = Append(@, ChannelNack(FALSE, ~Truthy(d))),
                            !.log = Append(@, Event("nack", 0, FALSE))], res |-> "ok"]

\* the closure returned by makeAck; the channel getter throws when not opened
makeAck(sig, open, d, st) ==
  IF st.called THEN [st |-> st, res |-> "ok"]
  ELSE LET st1 == [st EXCEPT !.called = TRUE]
       IN  IF ~open THEN [st |-> st1, res |-> "throw"]
           ELSE IF sig \in {"undef", "true"}
             THEN [st |-> [st1 EXCEPT !.ops = Append(@, ChannelAck(FALSE)),
                                      !.log = Append(@, Event("ack", 0, FALSE))], res |-> "ok"]
             ELSE [st |-> [st1 EXCEPT !.ops = Append(@, ChannelNack(FALSE, ~Truthy(d))),
                                      !.log = Append(@, Event("nack", 0, FALSE))],
                   res |-> "ok"]

RECURSIVE makeChain(_, _, _, _, _, _), hdl(_, _, _, _, _, _)

\* makeChain(hs, j, ...) is the callback that handler j-1 receives as next:
\* the wrapper built by the reduce for handler j, or ack after the last one
makeChain(hs, j, sig, open, d, st) ==
  IF j > Len(hs) THEN makeAck(sig, open, d, st)
  ELSE IF sig = "false" THEN makeChain(hs, j + 1, "false", open, d, st)
  ELSE IF sig = "err" THEN makeChain(hs, j + 1, "err", open, d, st)
  ELSE IF sig = "true"
    THEN LET r == makeChain(hs, j + 1, "true", open, d, [st EXCEPT !.det = TRUE])
             back == [r.st EXCEPT !.det = st.det]
         IN  IF r.res = "throw" THEN [st |-> back, res |-> "throw"]
             ELSE hdl(hs, j, 1, open, d, back)
  ELSE hdl(hs, j, 1, open, d, st)

\* handler i from its k-th call of next on (k = 1: the handler is entered)
hdl(hs, i, k, open, d, st) ==
  LET h == hs[i]
      fail == IF h.mode = "sync" THEN "throw" ELSE "reject"
      st0 == IF k = 1
               THEN [st EXCEPT !.inv = Append(@, i), !.log = Append(@, Event("enter", i, st.det))]
               ELSE st
  IN  IF k > Len(h.sigs)
        THEN IF h.end = "throw"
               THEN [st |-> [st0 EXCEPT !.threw = TRUE], res |-> fail]
               ELSE [st |-> st0, res |-> "ok"]
        ELSE LET s == h.sigs[k]
                 st1 == [st0 EXCEPT !.aborted = @ \/ s \in {"false", "err"},
                                    !.log = Append(@, Event("next", i, FALSE)),
                                    !.det = (h.mode = "sync")]
                 r == makeChain(hs, i + 1, s, open, d, st1)
                 back == [r.st EXCEPT !.det = st.det,
                                      !.log = IF h.mode = "await"
                                                THEN Append(@, Event("resume", i, FALSE)) ELSE @]
             IN  IF r.res = "throw" THEN [st |-> back, res |-> fail]
                 ELSE IF r.res = "reject" /\ h.mode = "await"
                   THEN [st |-> back, res |-> "reject"]
                 ELSE hdl(hs, i, k + 1, open, d, back)

\* the consumer callback of Queue.sub from makeAck on:
\*   try { await chain(message, ack); ack() } catch { ack(false) }
OnMessage(hs, open, d) ==
  LET c == makeChain(hs, 1, "undef", open, d, Delivery0)
      a == makeAck("undef", open, d, c.st)
      st == IF c.res = "ok" /\ a.res = "ok" THEN a.st
            ELSE IF c.res = "ok" THEN makeAck("false", open, d, a.st).st
            ELSE makeAck("false", open, d, c.st).st
  IN  [ops |-> st.ops, inv |-> st.inv, threw |-> st.threw, aborted |-> st.aborted,
       n |-> Len(hs), chain |-> c.res, log |-> st.log]

(***************************************************************************)
(* State.                                                                  *)
(***************************************************************************)
VARIABLES
  \* Rabbit (connection manager)
  nodes,        \* number of endpoints of configuration.connection.nodes
  policy,       \* [retry, frequency] of configuration.connection
  client,       \* the live connection (its id), 0 = null
  cursor,       \* index of the endpoint to dial next
  closing,      \* close() was called
  userClosed,   \* the user called close() with no connect() of theirs in progress
                \* and has not called connect() since
  calls,        \* connect() and close() calls of the user so far
  loops,        \* the connect() calls in progress
  closers,      \* close() calls awaiting the driver's reply (connection ids)
  dials,        \* every driver dial call so far: [node, res, by]
  finished,     \* every connect() call that dialed and has settled
  overlap,      \* two connect() calls were in progress at the same time
  \* driver
  nconn,        \* connections opened so far (ids 1..nconn)
  live,         \* ids of the connections that are open
  uchans,       \* underlying channels opened so far: [conn, owner, open, via]
  events,       \* close events emitted and not yet handled
  \* Channel entities
  channels,     \* name -> [_channel, closing, registered]
  pend,         \* createChannel calls awaiting their reply: [chan, conn, by, via]
  \* Queue entity and its subscriber
  dlx,          \* config.deadLetterExchange
  consumerTag,  \* 0 = null
  subs,         \* consume calls awaiting their reply (underlying channel ids)
  consumers,    \* consumers registered at the server: [uch, on, cancels]
  deliveries,   \* messages delivered to the subscriber: [uch, tag, state, open, ops]
  chain,        \* what the handlers of the subscriber do (when it is fixed)
  last,         \* the run of the callback on chain
  \* Exchange and Queue entities, topology loader
  topology,     \* configuration.exchanges and configuration.queues
  asserted,     \* entity -> its asserted flag
  declares,     \* assertExchange / assertQueue / bindQueue calls sent to the driver
  asserts,      \* assert() calls of the user: [ent, pc, ret, over]
  prefetch,     \* underlying channels on which prefetch(1) was called
  setups,       \* the runs of the topology loader, one per successful connect
  \* configuration loader
  input,        \* the connection argument of new Rabbit(connection)
  built,        \* what the constructor made of it: the nodes, or the error thrown
  shown,        \* the string and JSON forms of the first node, once rendered
  \* message codec
  outbound,     \* the message and options of a pub() / send() call
  wire,         \* the content and properties handed to the driver
  inbound       \* what the consumer callback made of the delivery

brokerVars == <<nodes, policy, client, cursor, closing, userClosed, calls, loops, closers, dials, finished, overlap>>
driverVars == <<nconn, live, uchans, events>>
chanVars == <<channels, pend>>
queueVars == <<dlx, consumerTag, subs, consumers, deliveries, chain, last>>
entityVars == <<topology, asserted, declares, asserts, prefetch>>
topoVars == <<entityVars, setups>>
codecVars == <<outbound, wire, inbound>>
cfgVars == <<input, built, shown, codecVars>>
vars == <<brokerVars, driverVars, chanVars, queueVars, topoVars, cfgVars>>

ChanNames == {"__read__", "__write__", "write"}

(***************************************************************************)
(* The declarative topology: configuration.exchanges is an ordered map     *)
(* exchange name -> ExchangeConfig, configuration.queues an ordered map    *)
(* queue name -> QueueConfig.  An ExchangeConfig carries at most one of    *)
(* fanout (a list of strings), topics, direct (maps string -> strings).    *)
(* A map is kept as the sequence of its entries [key, val], a string value *)
(* as a list of one.                                                       *)
(***************************************************************************)
ExchangeNames == <<"ex1", "ex2", "ex3", "ex4">>
QueueNames == {"a", "b", "c"}

ExchangeConfigs ==
  { [kind |-> "none", list |-> <<>>, map |-> <<>>],
    [kind |-> "fanout", list |-> <<"a">>, map |-> <<>>],
    [kind |-> "topics", list |-> <<>>, map |-> <<[key |-> "a", val |-> <<"b">>]>>],
    [kind |-> "topics", list |-> <<>>, map |-> <<[key |-> "a", val |-> <<"a", "b">>]>>],
    [kind |-> "direct", list |-> <<>>,
     map |-> <<[key |-> "a", val |-> <<"b">>], [key |-> "b", val |-> <<"a">>]>>] }

QueueMaps == {<<>>, <<"a">>, <<"c">>, <<"a", "c">>}

Topologies == [exchanges : SeqsUpTo(ExchangeConfigs, MaxExchanges), queues : QueueMaps]

\* new Rabbit(connection) without exchanges and queues
NoTopology == [exchanges |-> <<>>, queues |-> <<>>]

\* the entities the registries of the broker hand out: exchange(name), queue(name)
Exchange(name) == [t |-> "exchange", name |-> name]
Queue(name) == [t |-> "queue", name |-> name]
Entities ==
  {Exchange(ExchangeNames[i]) : i \in 1..MaxExchanges} \cup {Queue(q) : q \in QueueNames}

\* a run of setup() over connection c, before its first step
NewSetup(c) ==
  [conn |-> c, pc |-> IF topology = NoTopology THEN "done" ELSE "loop",
   i |-> 1, slots |-> <<>>, qi |-> 1]

\* @default Infinity of configuration.connection.retry
Infinity == 1000000
Dec(r) == IF r = Infinity THEN Infinity ELSE r - 1
Max(a, b) == IF a >= b THEN a ELSE b

Idle == [pc |-> "idle"]
Active(l) == loops[l].pc # "idle"
FreeLoops == {l \in DOMAIN loops : ~Active(l)}
FreeLoop == CHOOSE l \in FreeLoops : \A m \in FreeLoops : l <= m

\* get connected() of Rabbit and of Channel
connected == client # 0
ChannelConnected(name) == channels[name]._channel # 0

(***************************************************************************)
(* Rabbit.connect(retry?, frequency?), Rabbit.close() and the close        *)
(* listener of the connection.                                             *)
(***************************************************************************)
\* the arguments of a connect call, as the argument list
RetryArgs == (0 - 1)..MaxRetry
ConnectArgs == {<<>>} \cup {<<r>> : r \in RetryArgs} \cup {<<r, 100>> : r \in 0..MaxRetry}

\* retry ?? policy.retry and frequency ?? policy.frequency, clamped at 0
EffectiveRetry(args) == Max(0, IF Len(args) >= 1 THEN args[1] ELSE policy.retry)
EffectiveFrequency(args) == Max(0, IF Len(args) >= 2 THEN args[2] ELSE policy.frequency)

\* the record of a connect() call that has settled: resolved (ok) or rejected
\* with the error of dial number err, after n dials of its own
Settled(lp, ok, err, conn) ==
  [ok |-> ok, n |-> lp.n, r0 |-> lp.r0, fresh |-> lp.fresh, alone |-> lp.alone,
   owner |-> lp.owner, nargs |-> lp.nargs, err |-> err, dialed |-> Len(dials),
   connected |-> conn # 0]

\* connect() entered while disconnected by a caller (owner) in slot l:
\* the first dial goes out at once
connect(l, owner, args) ==
  /\ ~Active(l)
  /\ Len(dials) < MaxDials
  /\ LET others == {m \in DOMAIN loops : Active(m)}
     IN  /\ loops' = [m \in DOMAIN loops |->
                        IF m = l
                          THEN [pc |-> "dial", retry |-> EffectiveRetry(args),
                                frequency |-> EffectiveFrequency(args), owner |-> owner,
                                nargs |-> Len(args),
                                dial |-> Len(dials) + 1, n |-> 1, r0 |-> EffectiveRetry(args),
                                fresh |-> (dials = <<>>), alone |-> (others = {}), rej |-> FALSE]
                        ELSE IF Active(m) THEN [loops[m] EXCEPT !.alone = FALSE]
                        ELSE loops[m]]
         /\ overlap' = (overlap \/ others # {})
  /\ dials' = Append(dials, [node |-> cursor, res |-> "pending", by |-> l, owner |-> owner])
  /\ userClosed' = (userClosed /\ owner = "auto")

UserConnect(args) ==
  /\ client = 0
  /\ FreeLoops # {}
  /\ calls < MaxCalls
  /\ calls' = calls + 1
  /\ connect(FreeLoop, "user", args)
  /\ UNCHANGED <<nodes, policy, client, cursor, closing, closers, finished>>
  /\ UNCHANGED <<driverVars, chanVars, queueVars>>
  /\ UNCHANGED <<topoVars, cfgVars>>

\* a connect() that dials again although the broker is connected
UserConnectConnected_redial(args) ==
  /\ client # 0
  /\ FreeLoops # {}
  /\ calls < MaxCalls
  /\ calls' = calls + 1
  /\ connect(FreeLoop, "user", args)
  /\ UNCHANGED <<nodes, policy, client, cursor, closing, closers, finished>>
  /\ UNCHANGED <<driverVars, chanVars, queueVars>>
  /\ UNCHANGED <<topoVars, cfgVars>>

\* connect() called by the user while the broker holds a connection:
\* if (this.client) return this
UserConnectConnected(args) ==
  /\ client # 0
  /\ calls < MaxCalls
  /\ calls' = calls + 1
  /\ userClosed' = FALSE
  /\ UNCHANGED <<nodes, policy, client, cursor, closing, loops, closers, dials, finished, overlap>>
  /\ UNCHANGED <<driverVars, chanVars, queueVars>>
  /\ UNCHANGED <<topoVars, cfgVars>>

\* a cursor that goes back to the first endpoint after every failure
NextCursor_first(c) == 0

\* a cursor that stays on the endpoint that refused
NextCursor_stay(c) == c

\* cursor = (cursor + 1) mod N
NextCursor(c) == (c + 1) % nodes

\* the dial in flight of loop l is refused
DialFail(l) ==
  /\ loops[l].pc = "dial"
  /\ LET lp == loops[l]
         cur == NextCursor(cursor)
         failed == [dials EXCEPT ![lp.dial].res = "fail"]
     IN  /\ cursor' = cur
         /\ IF cur = 0 /\ lp.retry = 0
              THEN /\ loops' = [loops EXCEPT ![l] = Idle]
                   /\ dials' = failed
                   /\ finished' = Append(finished, Settled(lp, FALSE, lp.dial, client))
            ELSE IF cur = 0 /\ lp.frequency > 0
              THEN /\ loops' = [loops EXCEPT ![l].pc = "sleep"]
                   /\ dials' = failed
                   /\ UNCHANGED finished
            ELSE /\ Len(dials) < MaxDials
                 /\ loops' = [loops EXCEPT ![l].retry = IF cur = 0 THEN Dec(@) ELSE @,
                                           ![l].dial = Len(dials) + 1,
                                           ![l].n = @ + 1]
                 /\ dials' = Append(failed, [node |-> cur, res |-> "pending", by |-> l,
                                             owner |-> lp.owner])
                 /\ UNCHANGED finished
  /\ UNCHANGED <<nodes, policy, userClosed, calls, client, closing, closers, overlap>>
  /\ UNCHANGED <<driverVars, chanVars, queueVars>>
  /\ UNCHANGED <<topoVars, cfgVars>>

\* the sleep of `frequency` ms between two cluster attempts is over
Wake(l) ==
  /\ loops[l].pc = "sleep"
  /\ Len(dials) < MaxDials
  /\ loops' = [loops EXCEPT ![l].pc = "dial", ![l].retry = Dec(@),
                            ![l].dial = Len(dials) + 1, ![l].n = @ + 1]
  /\ dials' = Append(dials, [node |-> cursor, res |-> "pending", by |-> l,
                             owner |-> loops[l].owner])
  /\ UNCHANGED <<nodes, policy, userClosed, calls, client, cursor, closing, closers, finished, overlap>>
  /\ UNCHANGED <<driverVars, chanVars, queueVars>>
  /\ UNCHANGED <<topoVars, cfgVars>>

\* k more createChannel calls fit in the bounds of the model
Room(k) == Len(pend) + k <= MaxPend /\ Len(uchans) + Len(pend) + k <= MaxChans

ChanOrder == <<"__read__", "__write__", "write">>

\* a broker that resurrects no channel
NeedsChannel_none(name) == FALSE

NeedsChannel(name) == channels[name].registered /\ channels[name]._channel = 0

\* the dial in flight of loop l is accepted: Connected, close listener
\* installed, registered channels resurrected with channel.connect()
DialOk(l) ==
  /\ loops[l].pc = "dial"
  /\ nconn < MaxConns
  /\ LET lp == loops[l]
         c == nconn + 1
         dead == SelectSeq(ChanOrder, NeedsChannel)
         creates == [i \in 1..Len(dead) |->
                       [chan |-> dead[i], conn |-> c, by |-> l, via |-> "resurrect"]]
         own == IF lp.owner \in ChanNames
                  THEN <<[chan |-> lp.owner, conn |-> c, by |-> 0, via |-> "connect"]>>
                  ELSE <<>>
     IN  /\ client' = c
         /\ nconn' = c
         /\ live' = live \cup {c}
         /\ dials' = [dials EXCEPT ![lp.dial].res = "ok"]
         /\ IF dead = <<>>
              THEN /\ Room(Len(own))
                   /\ loops' = [loops EXCEPT ![l] = Idle]
                   /\ finished' = Append(finished, Settled(lp, TRUE, 0, c))
                   /\ pend' = pend \o own
                   /\ setups' = Append(setups, NewSetup(c))
              ELSE /\ Room(Len(dead))
                   /\ loops' = [loops EXCEPT ![l].pc = "resurrect"]
                   /\ pend' = pend \o creates
                   /\ UNCHANGED <<finished, setups>>
  /\ UNCHANGED <<nodes, policy, userClosed, calls, cursor, closing, closers, overlap>>
  /\ UNCHANGED <<uchans, events, channels, queueVars>>
  /\ UNCHANGED <<entityVars, cfgVars>>

\* every channel.connect() of the resurrection has settled: connect() settles
\* (and a Channel.connect() that was awaiting it goes on to createChannel)
ResurrectDone(l) ==
  /\ loops[l].pc = "resurrect"
  /\ \A i \in 1..Len(pend) : pend[i].by # l
  /\ LET lp == loops[l]
         own == IF ~lp.rej /\ lp.owner \in ChanNames /\ client # 0
                  THEN <<[chan |-> lp.owner, conn |-> client, by |-> 0, via |-> "connect"]>>
                  ELSE <<>>
     IN  /\ Room(Len(own))
         /\ pend' = pend \o own
         /\ finished' = Append(finished, Settled(lp, ~lp.rej, 0, client))
         /\ setups' = IF ~lp.rej /\ client # 0
                         THEN Append(setups, NewSetup(client)) ELSE setups
  /\ loops' = [loops EXCEPT ![l] = Idle]
  /\ UNCHANGED <<nodes, policy, userClosed, calls, client, cursor, closing, closers, dials, overlap>>
  /\ UNCHANGED <<driverVars, channels, queueVars>>
  /\ UNCHANGED <<entityVars, cfgVars>>

\* what the driver does when a connection goes away: its open channels close
\* with it, a close event is emitted on each of them and on the connection
ChansOf(c) == {u \in 1..Len(uchans) : uchans[u].conn = c /\ uchans[u].open}
CloseEvents(c) == {[t |-> "chan", id |-> u] : u \in ChansOf(c)} \cup {[t |-> "conn", id |-> c]}
ClosedWith(c) == [u \in 1..Len(uchans) |->
                   IF uchans[u].conn = c THEN [uchans[u] EXCEPT !.open = FALSE] ELSE uchans[u]]

\* the connection is lost (not closed by the user)
ConnDrop(c) ==
  /\ c \in live
  /\ c \notin closers
  /\ live' = live \ {c}
  /\ uchans' = ClosedWith(c)
  /\ events' = events \cup CloseEvents(c)
  /\ UNCHANGED <<nconn, brokerVars, chanVars, queueVars>>
  /\ UNCHANGED <<topoVars, cfgVars>>

\* a close listener that only records the loss of the connection
ConnCloseEvent_noRedial(c) ==
  /\ [t |-> "conn", id |-> c] \in events
  /\ events' = events \ {[t |-> "conn", id |-> c]}
  /\ client' = 0
  /\ \A e \in events : ~(e.t = "chan" /\ uchans[e.id].conn = c)
  /\ UNCHANGED <<loops, dials, overlap, userClosed>>
  /\ UNCHANGED <<nodes, policy, calls, cursor, closing, closers, finished>>
  /\ UNCHANGED <<nconn, live, uchans, chanVars, queueVars>>
  /\ UNCHANGED <<topoVars, cfgVars>>

\* a close listener that moves the cursor to the next endpoint before it redials
ConnCloseEvent_advance(c) ==
  /\ [t |-> "conn", id |-> c] \in events
  /\ events' = events \ {[t |-> "conn", id |-> c]}
  /\ client' = 0
  /\ \A e \in events : ~(e.t = "chan" /\ uchans[e.id].conn = c)
  /\ IF closing
       THEN UNCHANGED <<loops, dials, overlap, userClosed, cursor>>
       ELSE /\ FreeLoops # {}
            /\ Len(dials) < MaxDials
            /\ cursor' = NextCursor(cursor)
            /\ loops' = [loops EXCEPT ![FreeLoop] =
                           [pc |-> "dial", retry |-> EffectiveRetry(<<>>),
                            frequency |-> EffectiveFrequency(<<>>), owner |-> "auto",
                            nargs |-> 0, dial |-> Len(dials) + 1, n |-> 1,
                            r0 |-> EffectiveRetry(<<>>), fresh |-> FALSE,
                            alone |-> TRUE, rej |-> FALSE]]
            /\ dials' = Append(dials, [node |-> NextCursor(cursor), res |-> "pending",
                                       by |-> FreeLoop, owner |-> "auto"])
            /\ UNCHANGED <<overlap, userClosed>>
  /\ UNCHANGED <<nodes, policy, calls, closing, closers, finished>>
  /\ UNCHANGED <<nconn, live, uchans, chanVars, queueVars>>
  /\ UNCHANGED <<topoVars, cfgVars>>

\* the close listener of connection c (the driver emits the close event of
\* a connection after the close events of its channels)
ConnCloseEvent(c) ==
  /\ [t |-> "conn", id |-> c] \in events
  /\ events' = events \ {[t |-> "conn", id |-> c]}
  /\ client' = 0
  /\ \A e \in events : ~(e.t = "chan" /\ uchans[e.id].conn = c)
  /\ IF closing
       THEN UNCHANGED <<loops, dials, overlap, userClosed>>
       ELSE FreeLoops # {} /\ connect(FreeLoop, "auto", <<>>)
  /\ UNCHANGED <<nodes, policy, calls, cursor, closing, closers, finished>>
  /\ UNCHANGED <<nconn, live, uchans, chanVars, queueVars>>
  /\ UNCHANGED <<topoVars, cfgVars>>

\* Rabbit.close()
UserClose ==
  /\ calls < MaxCalls
  /\ calls' = calls + 1
  /\ userClosed' = (userClosed \/ \A l \in DOMAIN loops : Active(l) => loops[l].owner = "auto")
  /\ IF client = 0
       THEN UNCHANGED <<closing, closers, live, uchans, events>>
       ELSE /\ closing' = TRUE
            /\ IF client \in live
                 THEN /\ closers' = closers \cup {client}
                      /\ live' = live \ {client}
                      /\ uchans' = ClosedWith(client)
                      /\ events' = events \cup CloseEvents(client)
                 ELSE UNCHANGED <<closers, live, uchans, events>>
  /\ UNCHANGED <<nodes, policy, client, cursor, loops, dials, finished, overlap>>
  /\ UNCHANGED <<nconn, chanVars, queueVars>>
  /\ UNCHANGED <<topoVars, cfgVars>>

\* the driver's close() of connection c resolves, after its close events
CloseReply(c) ==
  /\ c \in closers
  /\ \A e \in events : ~(e.t = "conn" /\ e.id = c)
                       /\ ~(e.t = "chan" /\ uchans[e.id].conn = c)
  /\ closers' = closers \ {c}
  /\ client' = 0
  /\ UNCHANGED <<nodes, policy, userClosed, calls, cursor, closing, loops, dials, finished, overlap>>
  /\ UNCHANGED <<driverVars, chanVars, queueVars>>
  /\ UNCHANGED <<topoVars, cfgVars>>

(***************************************************************************)
(* Channel: connect(), close(), onClose() and the reply to createChannel.  *)
(***************************************************************************)
Remove(q, i) == SubSeq(q, 1, i - 1) \o SubSeq(q, i + 1, Len(q))

\* a Channel.connect() that asks for a channel without looking at the broker
ChanConnect_noBroker(name) ==
  /\ channels[name]._channel = 0
  /\ channels' = [channels EXCEPT ![name].registered = TRUE]
  /\ Room(1)
  /\ pend' = Append(pend, [chan |-> name, conn |-> client, by |-> 0, via |-> "connect"])
  /\ UNCHANGED <<loops, dials, overlap, userClosed>>
  /\ UNCHANGED <<nodes, policy, calls, client, cursor, closing, closers, finished>>
  /\ UNCHANGED <<driverVars, queueVars>>
  /\ UNCHANGED <<topoVars, cfgVars>>

\* Channel.connect() called on broker.channel(name) by the user
ChanConnect(name) ==
  /\ channels[name]._channel = 0
  /\ channels' = [channels EXCEPT ![name].registered = TRUE]
  /\ IF client # 0
       THEN /\ Room(1)
            /\ pend' = Append(pend, [chan |-> name, conn |-> client, by |-> 0,
                                      via |-> "connect"])
            /\ UNCHANGED <<loops, dials, overlap, userClosed>>
       ELSE /\ FreeLoops # {}
            /\ connect(FreeLoop, name, <<>>)
            /\ UNCHANGED pend
  /\ UNCHANGED <<nodes, policy, calls, client, cursor, closing, closers, finished>>
  /\ UNCHANGED <<driverVars, queueVars>>
  /\ UNCHANGED <<topoVars, cfgVars>>

\* createChannel number i is answered on an open connection:
\* this._channel = <new channel>; this.closing = false; on("close", onClose)
CreateChannelOk(i) ==
  /\ i \in 1..Len(pend)
  /\ pend[i].conn \in live
  /\ Len(uchans) < MaxChans
  /\ uchans' = Append(uchans, [conn |-> pend[i].conn, owner |-> pend[i].chan,
                               open |-> TRUE, via |-> pend[i].via])
  /\ channels' = [channels EXCEPT ![pend[i].chan]._channel = Len(uchans) + 1,
                                  ![pend[i].chan].closing = FALSE]
  /\ pend' = Remove(pend, i)
  /\ UNCHANGED <<nconn, live, events, brokerVars, queueVars>>
  /\ UNCHANGED <<topoVars, cfgVars>>

\* createChannel number i was issued on a connection that is gone: it rejects
CreateChannelFail(i) ==
  /\ i \in 1..Len(pend)
  /\ pend[i].conn \notin live
  /\ pend' = Remove(pend, i)
  /\ loops' = IF pend[i].by # 0
                THEN [loops EXCEPT ![pend[i].by].rej = TRUE] ELSE loops
  /\ UNCHANGED <<nodes, policy, userClosed, calls, client, cursor, closing, closers, dials, finished, overlap>>
  /\ UNCHANGED <<driverVars, channels, queueVars>>
  /\ UNCHANGED <<topoVars, cfgVars>>

\* Channel.close()
ChanClose(name) ==
  /\ channels[name]._channel # 0
  /\ channels' = [channels EXCEPT ![name].closing = TRUE]
  /\ LET u == channels[name]._channel
     IN  IF uchans[u].open
           THEN /\ uchans' = [uchans EXCEPT ![u].open = FALSE]
                /\ events' = events \cup {[t |-> "chan", id |-> u]}
           ELSE UNCHANGED <<uchans, events>>
  /\ UNCHANGED <<nconn, live, pend, brokerVars, queueVars>>
  /\ UNCHANGED <<topoVars, cfgVars>>

\* the underlying channel u closes by itself (channel error, or closed
\* directly on the driver) while its connection stays open
UchanBreak(u) ==
  /\ u \in 1..Len(uchans)
  /\ uchans[u].open
  /\ uchans' = [uchans EXCEPT ![u].open = FALSE]
  /\ events' = events \cup {[t |-> "chan", id |-> u]}
  /\ UNCHANGED <<nconn, live, brokerVars, chanVars, queueVars>>
  /\ UNCHANGED <<topoVars, cfgVars>>

\* a close listener that forgets the channel and never reopens it
onClose_noReopen(u) ==
  /\ [t |-> "chan", id |-> u] \in events
  /\ events' = events \ {[t |-> "chan", id |-> u]}
  /\ channels' = [channels EXCEPT ![uchans[u].owner]._channel = 0]
  /\ UNCHANGED <<nconn, live, uchans, pend, brokerVars, queueVars>>
  /\ UNCHANGED <<topoVars, cfgVars>>

\* a close listener that reopens the channel whoever closed it
onClose_alwaysReopen(u) ==
  /\ [t |-> "chan", id |-> u] \in events
  /\ events' = events \ {[t |-> "chan", id |-> u]}
  /\ channels' = [channels EXCEPT ![uchans[u].owner]._channel = 0]
  /\ IF ~connected
       THEN UNCHANGED pend
       ELSE /\ Room(1)
            /\ pend' = Append(pend, [chan |-> uchans[u].owner, conn |-> client, by |-> 0,
                                      via |-> "reopen"])
  /\ UNCHANGED <<nconn, live, uchans, brokerVars, queueVars>>
  /\ UNCHANGED <<topoVars, cfgVars>>

\* Channel.onClose(), the close listener of underlying channel u
onClose(u) ==
  /\ [t |-> "chan", id |-> u] \in events
  /\ events' = events \ {[t |-> "chan", id |-> u]}
  /\ LET name == uchans[u].owner
     IN  /\ channels' = [channels EXCEPT ![name]._channel = 0]
         /\ IF channels[name].closing \/ ~connected
              THEN UNCHANGED pend
              ELSE /\ Room(1)
                   /\ pend' = Append(pend, [chan |-> name, conn |-> client, by |-> 0,
                                             via |-> "reopen"])
  /\ UNCHANGED <<nconn, live, uchans, brokerVars, queueVars>>
  /\ UNCHANGED <<topoVars, cfgVars>>

(***************************************************************************)
(* Queue.sub(...hdl) and the consumer callback.                            *)
(***************************************************************************)
UsableChannel(name) ==
  channels[name]._channel # 0 /\ uchans[channels[name]._channel].open

\* sub() up to the consume call on "__read__"
SubCall ==
  /\ ~(consumerTag # 0)
  /\ channels' = [channels EXCEPT !["__read__"].registered = TRUE]
  /\ UsableChannel("__read__")
  /\ Len(subs) + Len(consumers) < MaxSubs
  /\ subs' = Append(subs, channels["__read__"]._channel)
  /\ UNCHANGED <<dlx, consumerTag, consumers, deliveries, chain, last>>
  /\ UNCHANGED <<pend, brokerVars, driverVars>>
  /\ UNCHANGED <<topoVars, cfgVars>>

\* the reply to consume call number i: this.consumerTag = ct.consumerTag
SubReply(i) ==
  /\ i \in 1..Len(subs)
  /\ uchans[subs[i]].open
  /\ consumers' = Append(consumers, [uch |-> subs[i], on |-> TRUE, cancels |-> 0])
  /\ consumerTag' = Len(consumers) + 1
  /\ subs' = Remove(subs, i)
  /\ UNCHANGED <<dlx, deliveries, chain, last>>
  /\ UNCHANGED <<brokerVars, driverVars, chanVars>>
  /\ UNCHANGED <<topoVars, cfgVars>>

\* cancel() up to the cancel call on "__read__"
CancelCall ==
  /\ consumerTag # 0
  /\ UsableChannel("__read__")
  /\ consumers[consumerTag].cancels < MaxPend
  /\ channels' = [channels EXCEPT !["__read__"].registered = TRUE]
  /\ consumers' = [consumers EXCEPT ![consumerTag].cancels = @ + 1]
  /\ UNCHANGED <<dlx, consumerTag, subs, deliveries, chain, last>>
  /\ UNCHANGED <<pend, brokerVars, driverVars>>
  /\ UNCHANGED <<topoVars, cfgVars>>

\* a cancel() that forgets to clear the tag after the reply
CancelReply_keepTag(t) ==
  /\ t \in 1..Len(consumers)
  /\ consumers[t].cancels > 0
  /\ IF uchans[consumers[t].uch].open
       THEN consumers' = [consumers EXCEPT ![t].cancels = @ - 1, ![t].on = FALSE]
       ELSE consumers' = [consumers EXCEPT ![t].cancels = @ - 1]
  /\ UNCHANGED <<dlx, consumerTag, subs, deliveries, chain, last>>
  /\ UNCHANGED <<brokerVars, driverVars, chanVars>>
  /\ UNCHANGED <<topoVars, cfgVars>>

\* the reply to a cancel call for consumer t: this.consumerTag = null
\* (a cancel on a channel that has closed meanwhile rejects)
CancelReply(t) ==
  /\ t \in 1..Len(consumers)
  /\ consumers[t].cancels > 0
  /\ IF uchans[consumers[t].uch].open
       THEN /\ consumers' = [consumers EXCEPT ![t].cancels = @ - 1, ![t].on = FALSE]
            /\ consumerTag' = 0
       ELSE /\ consumers' = [consumers EXCEPT ![t].cancels = @ - 1]
            /\ UNCHANGED consumerTag
  /\ UNCHANGED <<dlx, subs, deliveries, chain, last>>
  /\ UNCHANGED <<brokerVars, driverVars, chanVars>>
  /\ UNCHANGED <<topoVars, cfgVars>>

\* the deliveries of underlying channel u that are not acknowledged yet
Unsettled(u) == {i \in 1..Len(deliveries) : deliveries[i].uch = u /\ deliveries[i].state = "running"}

\* a server that ignores the prefetch count
MayDeliver_always(u) == TRUE

\* prefetch(1): the server holds the next message of a channel back while
\* one is unacknowledged; without prefetch it sends them as they come
MayDeliver(u) == u \in prefetch => Unsettled(u) = {}

\* the server delivers a message to consumer t: the callback starts
Deliver(t) ==
  /\ t \in 1..Len(consumers)
  /\ consumers[t].on
  /\ uchans[consumers[t].uch].open
  /\ MayDeliver(consumers[t].uch)
  /\ Len(deliveries) < MaxDeliveries
  /\ deliveries' = Append(deliveries, [uch |-> consumers[t].uch, tag |-> t,
                                        state |-> "running", open |-> TRUE, ops |-> <<>>])
  /\ UNCHANGED <<dlx, consumerTag, subs, consumers, chain, last>>
  /\ UNCHANGED <<brokerVars, driverVars, chanVars>>
  /\ UNCHANGED <<topoVars, cfgVars>>

\* everything the callback can do, per state of "__read__" and per config
Outcomes ==
  [open \in BOOLEAN |-> [d \in DlxValues |-> {OnMessage(hs, open, d) : hs \in Scripts}]]

\* the ack / nack calls of those runs
AckOutcomes ==
  [open \in BOOLEAN |-> [d \in DlxValues |-> {r.ops : r \in Outcomes[open][d]}]]

\* the callback of delivery i is over: its ack / nack calls went to the
\* underlying channel that "__read__" held
Finish(i, ops) ==
  deliveries' = [deliveries EXCEPT ![i].state = "settled",
                   ![i].open = UsableChannel("__read__"),
                   ![i].ops = [k \in 1..Len(ops) |->
                      [kind |-> ops[k].kind, allUpTo |-> ops[k].allUpTo,
                       requeue |-> ops[k].requeue, on |-> channels["__read__"]._channel]]]

\* the handler chain of delivery i settles, whatever the handlers did
Settle(i) ==
  /\ i \in 1..Len(deliveries)
  /\ deliveries[i].state = "running"
  /\ \E ops \in AckOutcomes[UsableChannel("__read__")][dlx] : Finish(i, ops)
  /\ UNCHANGED <<dlx, consumerTag, subs, consumers, chain, last>>
  /\ UNCHANGED <<brokerVars, driverVars, chanVars>>
  /\ UNCHANGED <<topoVars, cfgVars>>

\* the same for handlers whose behaviour is fixed: the callback runs on chain
Consume(i) ==
  /\ i \in 1..Len(deliveries)
  /\ deliveries[i].state = "running"
  /\ last' = OnMessage(chain, UsableChannel("__read__"), dlx)
  /\ Finish(i, last'.ops)
  /\ UNCHANGED <<dlx, consumerTag, subs, consumers, chain>>
  /\ UNCHANGED <<brokerVars, driverVars, chanVars>>
  /\ UNCHANGED <<topoVars, cfgVars>>

(***************************************************************************)
(* Specifications.                                                         *)
(***************************************************************************)
\* no callback has run on chain yet
NoRun == [ops |-> <<>>, inv |-> <<>>, threw |-> FALSE, aborted |-> FALSE,
          n |-> 0, chain |-> "none", log |-> <<>>]

\* nothing constructed yet, nothing rendered yet
NotBuilt == [state |-> "none"]
NotShown == [state |-> "none"]

\* nothing published yet
NoMessage == [state |-> "none"]
InitIdle == outbound = NoMessage /\ wire = NoMessage /\ inbound = NoMessage

InitLoaded ==
  /\ input = [form |-> "undefined"] /\ built = [state |-> "loaded"] /\ shown = NotShown
  /\ InitIdle

\* a new broker, but for the slots of its connect() calls
InitBase ==
  /\ client = 0 /\ cursor = 0 /\ closing = FALSE /\ userClosed = FALSE /\ calls = 0
  /\ closers = {} /\ dials = <<>> /\ finished = <<>> /\ overlap = FALSE
  /\ nconn = 0 /\ live = {} /\ uchans = <<>> /\ events = {}
  /\ channels = [name \in ChanNames |-> [_channel |-> 0, closing |-> FALSE, registered |-> FALSE]]
  /\ pend = <<>>
  /\ consumerTag = 0 /\ subs = <<>> /\ consumers = <<>> /\ deliveries = <<>>
  /\ chain = <<>>
  /\ last = NoRun
  /\ asserted = [e \in Entities |-> FALSE]
  /\ declares = <<>> /\ asserts = <<>> /\ prefetch = {} /\ setups = <<>>

InitCommon == InitBase /\ loops = [l \in 1..MaxLoops |-> Idle]

\* new Rabbit("amqp://localhost"), one queue with any deadLetterExchange
InitSub ==
  /\ InitCommon
  /\ InitLoaded
  /\ topology = NoTopology
  /\ nodes = 1
  /\ policy = [retry |-> Infinity, frequency |-> 0]
  /\ dlx \in DlxValues

NextSub ==
  \/ UserConnect(<<>>)
  \/ \E l \in 1..MaxLoops : DialOk(l)
  \/ ChanConnect("__read__")
  \/ \E i \in 1..MaxPend : CreateChannelOk(i)
  \/ ChanClose("__read__")
  \/ \E u \in 1..MaxChans : onClose(u)
  \/ SubCall
  \/ \E i \in 1..MaxSubs : SubReply(i)
  \/ \E t \in 1..MaxSubs : Deliver(t)
  \/ \E i \in 1..MaxDeliveries : Settle(i)

SpecSub == InitSub /\ [][NextSub]_vars

\* A connected broker whose queue has one consumer on "__read__" and one
\* message just delivered to it; "__read__" is open, or the user has closed
\* it meanwhile (both are states SpecSub reaches).  The handlers are drawn.
InitChain ==
  /\ nodes = 1
  /\ policy = [retry |-> Infinity, frequency |-> 0]
  /\ client = 1 /\ cursor = 0 /\ closing = FALSE /\ userClosed = FALSE /\ calls = 1
  /\ loops = [l \in 1..MaxLoops |-> Idle]
  /\ closers = {} /\ overlap = FALSE
  /\ dials = <<[node |-> 0, res |-> "ok", by |-> 1, owner |-> "user"]>>
  /\ finished = <<[ok |-> TRUE, n |-> 1, r0 |-> Infinity, fresh |-> TRUE, alone |-> TRUE,
                   owner |-> "user", nargs |-> 0, err |-> 0, dialed |-> 1,
                   connected |-> TRUE]>>
  /\ nconn = 1 /\ live = {1} /\ events = {}
  /\ \E open \in BOOLEAN :
       /\ uchans = <<[conn |-> 1, owner |-> "__read__", open |-> open, via |-> "connect"]>>
       /\ channels = [name \in ChanNames |->
                        IF name = "__read__"
                          THEN [_channel |-> IF open THEN 1 ELSE 0, closing |-> ~open,
                                registered |-> TRUE]
                          ELSE [_channel |-> 0, closing |-> FALSE, registered |-> FALSE]]
  /\ pend = <<>> /\ subs = <<>>
  /\ consumerTag = 1
  /\ consumers = <<[uch |-> 1, on |-> TRUE, cancels |-> 0]>>
  /\ deliveries = <<[uch |-> 1, tag |-> 1, state |-> "running", open |-> TRUE, ops |-> <<>>]>>
  /\ dlx \in DlxValues
  /\ chain \in Scripts
  /\ last = NoRun
  /\ topology = NoTopology
  /\ asserted = [e \in Entities |-> FALSE]
  /\ declares = <<>> /\ asserts = <<>> /\ prefetch = {}
  /\ setups = <<[conn |-> 1, pc |-> "done", i |-> 1, slots |-> <<>>, qi |-> 1]>>
  /\ InitLoaded

NextChain == \E i \in 1..MaxDeliveries : Consume(i)

SpecChain == InitChain /\ [][NextChain]_vars

(***************************************************************************)
(* Properties of the subscriber pipeline.                                  *)
(***************************************************************************)
SettledDeliveries == {i \in 1..Len(deliveries) : deliveries[i].state = "settled"}

\* C1 (as stated): every delivery whose callback is over had exactly one
\* ack or nack issued to the driver, whatever the handlers did.
C1_ExactlyOne ==
  \A i \in SettledDeliveries : Len(deliveries[i].ops) = 1

\* C1 (amended): never more than one ack or nack is issued for a delivery;
\* exactly one is issued when "__read__" holds an open underlying channel as
\* the callback runs, and none at all when it does not.
C1_AtMostOne ==
  \A i \in SettledDeliveries :
    /\ Len(deliveries[i].ops) <= 1
    /\ (Len(deliveries[i].ops) = 1) <=> deliveries[i].open

\* a delivery was settled with one ack / nack while "__read__" was open
C1_Witness ==
  \E i \in SettledDeliveries : deliveries[i].open /\ Len(deliveries[i].ops) = 1

\* a delivery whose callback ran while "__read__" was closed
C1_WitnessClosed ==
  \E i \in SettledDeliveries : ~deliveries[i].open /\ deliveries[i].ops = <<>>

\* Every handler of the chain does one thing: it returns, it throws / rejects,
\* or it calls next once and returns.
OneThing(h) == Len(h.sigs) = 0 \/ (Len(h.sigs) = 1 /\ h.end = "return")
Plain(hs) == \A i \in 1..Len(hs) : OneThing(hs[i])

\* no handler drops the promise of the handlers after it
Awaited(hs) == \A i \in 1..(Len(hs) - 1) : hs[i].sigs # <<>> => hs[i].mode = "await"

\* C2: the acknowledgement follows the outcome of the handlers: nack when a
\* handler threw, rejected, or signalled next(false) / next(err), ack in
\* every other case (return, resolve, next(), next(true)).
C2_FollowsOutcome ==
  (last.n > 0 /\ Plain(chain) /\ Awaited(chain) /\ last.ops # <<>>)
    => (last.ops[1].kind = "nack" <=> (last.threw \/ last.aborted))

\* C3: a nack has requeue = false exactly when the queue's config has
\* deadLetterExchange set, and allUpTo is false on every ack and nack.
C3_RequeuePolicy ==
  \A i \in SettledDeliveries : \A k \in 1..Len(deliveries[i].ops) :
    LET op == deliveries[i].ops[k]
    IN  /\ op.allUpTo = FALSE
        /\ op.kind = "nack" => (op.requeue = (dlx = undefined))

(***************************************************************************)
(* The connection manager alone: a cluster of 1..MaxNodes endpoints, any   *)
(* retry policy, no channel and no queue in use.                           *)
(***************************************************************************)
Policies == [retry : (0..MaxRetry) \cup {Infinity}, frequency : {0, 100}]

InitConn ==
  /\ InitCommon
  /\ InitLoaded
  /\ topology = NoTopology
  /\ nodes \in 1..MaxNodes
  /\ policy \in Policies
  /\ dlx = undefined

NextConn ==
  \/ \E args \in ConnectArgs : UserConnect(args)
  \/ \E l \in 1..MaxLoops : DialFail(l) \/ Wake(l) \/ DialOk(l)
  \/ \E c \in 1..MaxConns : ConnDrop(c) \/ ConnCloseEvent(c) \/ CloseReply(c)
  \/ UserClose

SpecConn == InitConn /\ [][NextConn]_vars

(***************************************************************************)
(* Properties of the connection manager.                                   *)
(***************************************************************************)
Finished == {finished[i] : i \in 1..Len(finished)}

\* a connect() of the user on a fresh broker that ran alone and was rejected
FreshFailures == {f \in Finished : ~f.ok /\ f.fresh /\ f.alone /\ f.owner = "user"}

\* C4: connect with effective retry r on a fresh broker whose N endpoints all
\* refuse makes exactly (r + 1) * N dials, then rejects with the error of the
\* last dial and leaves the broker disconnected (r from the argument or
\* from the policy).
C4_DialCount ==
  \A f \in FreshFailures :
    /\ f.n = (f.r0 + 1) * nodes
    /\ f.dialed = f.n
    /\ f.err = f.dialed
    /\ ~f.connected

\* a rejected connect that retried over a cluster of several endpoints
C4_Witness ==
  \E f \in FreshFailures : f.r0 >= 1 /\ nodes >= 2 /\ f.n = (f.r0 + 1) * nodes

\* the same with the retry budget taken from the policy object
C4_WitnessPolicy ==
  \E f \in FreshFailures : f.nargs = 0 /\ f.r0 = policy.retry /\ f.r0 >= 1 /\ nodes >= 2

\* C5: while no dial has been accepted (and connect calls do not overlap),
\* the k-th dial, counted from 0, targets node k mod N.
C5_RoundRobin ==
  (~overlap /\ \A k \in 1..Len(dials) : dials[k].res # "ok")
    => \A k \in 1..Len(dials) : dials[k].node = (k - 1) % nodes

\* a failing connect that went around a cluster of three more than once
C5_Witness ==
  /\ nodes = 3 /\ ~overlap /\ Len(dials) >= 5
  /\ \A k \in 1..Len(dials) : dials[k].res = "fail"

\* the close listener of some connection runs in this step
ListenerFires(c) == [t |-> "conn", id |-> c] \in events /\ [t |-> "conn", id |-> c] \notin events'

\* the dial that an automatic reconnection has just started
Redial(l) ==
  /\ ~Active(l) /\ loops'[l].pc = "dial" /\ loops'[l].owner = "auto"
  /\ Len(dials') = Len(dials) + 1
  /\ loops'[l].dial = Len(dials')
  /\ dials'[Len(dials')].res = "pending"

\* C6: when the connection closes and the user has not called close(), the
\* broker reports connected = false and a connect with the configured policy
\* starts at once; when one of its dials is accepted the broker reports
\* connected = true again.
C6_Reconnects ==
  [][/\ \A c \in 1..MaxConns : (ListenerFires(c) /\ ~closing) =>
          /\ client' = 0
          /\ \E l \in 1..MaxLoops :
               /\ Redial(l)
               /\ loops'[l].retry = Max(0, policy.retry)
               /\ loops'[l].frequency = Max(0, policy.frequency)
     /\ \A l \in 1..MaxLoops :
          (Active(l) /\ loops[l].owner = "auto" /\ dials'[loops[l].dial].res = "ok"
             /\ dials[loops[l].dial].res = "pending")
            => (client' # 0 /\ client' \in live')]_vars

\* an automatic reconnection has connected the broker again
C6_Witness ==
  /\ client # 0 /\ ~userClosed
  /\ \E f \in Finished : f.ok /\ f.owner = "auto" /\ f.n >= 2

\* an automatic reconnection starts a dial / connects the broker in this step
AutoDialStarted == Len(dials') > Len(dials) /\ dials'[Len(dials')].owner = "auto"
AutoConnected ==
  /\ client = 0 /\ client' # 0
  /\ \E l \in 1..MaxLoops : Active(l) /\ loops[l].owner = "auto"

\* C7: once the user has called close() (and until they call connect()) no
\* automatic reconnection happens: neither the close listener nor a
\* reconnection in progress starts a dial, and no reconnection makes the
\* broker connected again.
C7_NoReconnectAfterClose ==
  [][(userClosed /\ userClosed') => (~AutoDialStarted /\ ~AutoConnected)]_vars

\* the part of C7 about the close listener: it starts no dial once closing is set
C7_ListenerSuppressed ==
  [][\A c \in 1..MaxConns : (ListenerFires(c) /\ closing) =>
        (dials' = dials /\ loops' = loops /\ client' = 0)]_vars

Nodes(ds) == [k \in 1..Len(ds) |-> ds[k].node]
Results(ds) == [k \in 1..Len(ds) |-> ds[k].res]

\* C8: on three nodes, a first dial accepted at node 0, then six refused
\* dials and an eighth accepted dial give the dial sequence
\* node 0, 0, 1, 2, 0, 1, 2, 0, and the cursor moves only when a dial fails.
C8_RedialSequence ==
  /\ []((nodes = 3 /\ ~overlap
         /\ Results(dials) = <<"ok", "fail", "fail", "fail", "fail", "fail", "fail", "ok">>)
        => Nodes(dials) = <<0, 0, 1, 2, 0, 1, 2, 0>>)
  /\ [][cursor' # cursor =>
          \E k \in 1..Len(dials) : dials[k].res = "pending" /\ dials'[k].res = "fail"]_vars

\* the scenario of C8 with the default policy: eight dials, the last accepted
C8_Witness ==
  /\ nodes = 3 /\ policy.retry = Infinity /\ ~overlap
  /\ Results(dials) = <<"ok", "fail", "fail", "fail", "fail", "fail", "fail", "ok">>
  /\ client = 2

\* the node of connection c: the c-th accepted dial
Accepted(dl) == dl.res = "ok"
NodeOf(c) == SelectSeq(dials, Accepted)[c].node

\* C9 (as stated): on an involuntary close the cursor is not reset and the
\* first dial of the reconnection targets node (i + 1) mod N, where i is the
\* node of the connection that died.
C9_NextEndpoint ==
  [][\A c \in 1..MaxConns : (ListenerFires(c) /\ ~closing /\ ~overlap) =>
        /\ cursor' = cursor
        /\ dials'[Len(dials')].node = (NodeOf(c) + 1) % nodes]_vars

\* C9 (amended): on an involuntary close the cursor is neither reset nor
\* advanced, and the first dial of the reconnection targets the node of the
\* connection that died.
C9_SameEndpoint ==
  [][\A c \in 1..MaxConns : (ListenerFires(c) /\ ~closing /\ ~overlap) =>
        /\ cursor' = cursor
        /\ Len(dials') = Len(dials) + 1
        /\ dials'[Len(dials')].node = cursor
        /\ dials'[Len(dials')].node = NodeOf(c)]_vars

\* a reconnection redialed a node other than the first one of the cluster
C9_Witness ==
  /\ ~overlap /\ nodes >= 2
  /\ \E k \in 2..Len(dials) :
       /\ dials[k].owner = "auto" /\ dials[k - 1].res = "ok"
       /\ dials[k].node = dials[k - 1].node /\ dials[k].node # 0

(***************************************************************************)
(* Channel entities on a single-node broker whose connection stays up: the *)
(* channels "__read__" and "write" are opened, closed by the user and      *)
(* broken by the server.  The server answers every createChannel.          *)
(***************************************************************************)
InitChan ==
  /\ InitCommon
  /\ InitLoaded
  /\ topology = NoTopology
  /\ nodes = 1
  /\ policy = [retry |-> Infinity, frequency |-> 0]
  /\ dlx = undefined

NextChan ==
  \/ UserConnect(<<>>)
  \/ \E l \in 1..MaxLoops : DialOk(l) \/ ResurrectDone(l)
  \/ \E name \in ChanNames : ChanConnect(name) \/ ChanClose(name)
  \/ \E i \in 1..MaxPend : CreateChannelOk(i)
  \/ \E u \in 1..MaxChans : UchanBreak(u) \/ onClose(u)

SpecChan ==
  /\ InitChan /\ [][NextChan]_vars
  /\ WF_vars(\E i \in 1..MaxPend : CreateChannelOk(i))

(***************************************************************************)
(* Properties of the Channel entity.                                       *)
(***************************************************************************)
\* the close listener of underlying channel u runs in this step
OnCloseFires(u) == [t |-> "chan", id |-> u] \in events /\ [t |-> "chan", id |-> u] \notin events'

\* the close listener of the entity has asked for a new channel
Reopening(name) == \E i \in 1..Len(pend) : pend[i].chan = name /\ pend[i].via = "reopen"

\* C10: when the close listener of a channel runs while the broker is
\* connected and the entity is not closing, the entity reports
\* connected = false and asks the live connection for a new channel at once;
\* the reply makes the entity report connected = true again, and it does
\* come: a reopening entity is eventually connected.
C10_SelfHeal ==
  /\ \A name \in ChanNames : Reopening(name) ~> ChannelConnected(name)
  /\ [][\A u \in 1..Len(uchans) :
          (OnCloseFires(u) /\ connected /\ ~channels[uchans[u].owner].closing) =>
             /\ channels'[uchans[u].owner]._channel = 0
             /\ pend' = Append(pend, [chan |-> uchans[u].owner, conn |-> client, by |-> 0,
                                       via |-> "reopen"])]_vars
  /\ [][\A i \in 1..Len(pend) :
          (pend[i].via = "reopen" /\ pend[i].conn \in live /\ pend' = Remove(pend, i)) =>
             /\ channels'[pend[i].chan]._channel # 0
             /\ uchans'[channels'[pend[i].chan]._channel].open
             /\ uchans'[channels'[pend[i].chan]._channel].conn = pend[i].conn]_vars

\* an entity holds an open channel that its own close listener reopened
C10_Witness ==
  \E name \in ChanNames :
    /\ UsableChannel(name)
    /\ uchans[channels[name]._channel].via = "reopen"
    /\ ~channels[name].closing /\ connected

(***************************************************************************)
(* Channels over a connection that may drop: the broker reconnects by      *)
(* itself and resurrects its registered channels.                          *)
(***************************************************************************)
NextRec ==
  \/ UserConnect(<<>>)
  \/ \E l \in 1..MaxLoops : DialOk(l) \/ ResurrectDone(l)
  \/ \E name \in ChanNames : ChanConnect(name)
  \/ \E i \in 1..MaxPend : CreateChannelOk(i) \/ CreateChannelFail(i)
  \/ \E u \in 1..MaxChans : onClose(u)
  \/ \E c \in 1..MaxConns : ConnDrop(c) \/ ConnCloseEvent(c)

SpecRec == InitChan /\ [][NextRec]_vars

\* an automatic connect() settles successfully in this step
AutoSettles ==
  /\ Len(finished') = Len(finished) + 1
  /\ finished'[Len(finished')].ok
  /\ finished'[Len(finished')].owner = "auto"

\* the entity held a channel of a connection older than c
WasOpenBefore(name, c) ==
  \E u \in 1..Len(uchans) : uchans[u].owner = name /\ uchans[u].conn < c

\* C11: while the broker is disconnected no channel reports connected (a
\* channel closed by the drop of the connection does not come back by
\* itself); when the automatic reconnection settles on a connection that is
\* still up, every channel that was open on an earlier connection is open
\* on that connection.
C11_Resurrects ==
  /\ []((~overlap /\ client = 0) => \A name \in ChanNames : ~ChannelConnected(name))
  /\ [][(AutoSettles /\ ~overlap /\ client' \in live') =>
          \A name \in ChanNames : WasOpenBefore(name, client') =>
             /\ channels'[name]._channel # 0
             /\ uchans'[channels'[name]._channel].open
             /\ uchans'[channels'[name]._channel].conn = client']_vars

\* a channel that was open on the first connection is open on the second
\* one, resurrected by the automatic reconnection
C11_Witness ==
  /\ client = 2 /\ client \in live
  /\ \E f \in Finished : f.ok /\ f.owner = "auto"
  /\ \E name \in ChanNames :
       /\ UsableChannel(name)
       /\ uchans[channels[name]._channel].conn = 2
       /\ uchans[channels[name]._channel].via = "resurrect"
       /\ \E u \in 1..Len(uchans) : uchans[u].owner = name /\ uchans[u].conn = 1

(***************************************************************************)
(* Channels over a connection that the user closes.                        *)
(***************************************************************************)
NextClose ==
  \/ UserConnect(<<>>)
  \/ \E l \in 1..MaxLoops : DialOk(l) \/ ResurrectDone(l)
  \/ \E name \in ChanNames : ChanConnect(name)
  \/ \E i \in 1..MaxPend : CreateChannelOk(i) \/ CreateChannelFail(i)
  \/ \E u \in 1..MaxChans : onClose(u)
  \/ \E c \in 1..MaxConns : ConnCloseEvent(c) \/ CloseReply(c)
  \/ UserClose

SpecClose == InitChan /\ [][NextClose]_vars

\* what close() leaves when it resolves (and nobody has connected the broker
\* again in the meantime): the broker and every channel are disconnected
C12_AllDisconnected ==
  [][\A c \in 1..MaxConns : (c \in closers /\ c \notin closers' /\ nconn = c) =>
        (client' = 0 /\ \A name \in ChanNames : channels'[name]._channel = 0)]_vars

\* C12: when close() of the broker resolves, the broker and every channel
\* report connected = false, and no close listener of a channel of the
\* closed connection has issued a createChannel.
C12_CloseIsQuiet ==
  /\ C12_AllDisconnected
  /\ [][\A u \in 1..Len(uchans) :
          (OnCloseFires(u) /\ uchans[u].conn \in closers) => pend' = pend]_vars

(***************************************************************************)
(* Channel.connect() on a disconnected broker.                             *)
(***************************************************************************)
\* Channel.connect() of entity `name` is entered while the broker is disconnected
ConnectsBroker(name) ==
  /\ client = 0
  /\ \E l \in 1..MaxLoops : ~Active(l) /\ loops'[l].pc = "dial" /\ loops'[l].owner = name

\* the createChannel awaited by Channel.connect() of entity `name` is answered
ConnectResolves(name) ==
  /\ Len(uchans') = Len(uchans) + 1
  /\ uchans'[Len(uchans')].owner = name
  /\ uchans'[Len(uchans')].via = "connect"

\* C13: Channel.connect() entered while the broker is disconnected dials the
\* broker and asks for no channel yet; a channel is only ever asked of a
\* connection the broker holds; and when Channel.connect() resolves, the
\* broker and the channel are both connected.
C13_ConnectsBrokerFirst ==
  /\ [][\A name \in ChanNames : ConnectsBroker(name) =>
          (Len(dials') = Len(dials) + 1 /\ pend' = pend /\ uchans' = uchans)]_vars
  /\ [](\A i \in 1..Len(pend) : pend[i].conn \in 1..nconn)
  /\ [][\A name \in ChanNames : ConnectResolves(name) =>
          /\ client' # 0
          /\ channels'[name]._channel = Len(uchans')
          /\ uchans'[Len(uchans')].open
          /\ uchans'[Len(uchans')].conn \in live']_vars

\* Channel.connect() of "write" connected the broker and then got its channel
C13_Witness ==
  /\ client # 0
  /\ \E f \in Finished : f.ok /\ f.owner = "write"
  /\ UsableChannel("write")
  /\ uchans[channels["write"]._channel].via = "connect"

(***************************************************************************)
(* Channel.close() on an open channel.                                     *)
(***************************************************************************)
\* Channel.close() of entity `name` runs on an open channel in this step
Closes(name) ==
  /\ UsableChannel(name)
  /\ ~channels[name].closing
  /\ channels'[name].closing

\* a connect() of entity `name` has not settled yet
ConnectInFlight(name) ==
  \/ \E i \in 1..Len(pend) : pend[i].chan = name
  \/ \E l \in 1..MaxLoops : Active(l) /\ loops[l].owner = name

\* C14: Channel.close() on an open channel leaves the broker connected, the
\* other entities and their channels as they were and the entity registered;
\* when the close event of the channel arrives the entity reports
\* connected = false and asks for no new channel, and as long as it is
\* closing its close listener never asks for one.
C14_CloseFrame ==
  /\ [][\A name \in ChanNames : Closes(name) =>
          /\ client' = client /\ client # 0
          /\ live' = live
          /\ pend' = pend /\ loops' = loops /\ dials' = dials
          /\ channels'[name].registered
          /\ channels'[name]._channel = channels[name]._channel
          /\ ~uchans'[channels[name]._channel].open
          /\ \A other \in ChanNames \ {name} : channels'[other] = channels[other]
          /\ \A u \in 1..Len(uchans) : u # channels[name]._channel => uchans'[u] = uchans[u]]_vars
  /\ [][\A u \in 1..Len(uchans) :
          (OnCloseFires(u) /\ channels[uchans[u].owner].closing
                           /\ channels[uchans[u].owner]._channel = u) =>
            /\ channels'[uchans[u].owner]._channel = 0
            /\ channels'[uchans[u].owner].registered
            /\ pend' = pend
            /\ client' = client]_vars
  /\ [][\A name \in ChanNames :
          (channels[name].closing /\ ~ConnectInFlight(name)) =>
            (~Reopening(name))']_vars

\* "write" was closed by its user and stays closed and registered, while the
\* broker and "__read__" are still connected
C14_Witness ==
  /\ connected
  /\ channels["write"].registered /\ channels["write"].closing
  /\ channels["write"]._channel = 0
  /\ \E u \in 1..Len(uchans) : uchans[u].owner = "write" /\ ~uchans[u].open
  /\ events = {} /\ pend = <<>>
  /\ UsableChannel("__read__")

(***************************************************************************)
(* connect() and close() of the broker called again.                       *)
(***************************************************************************)
NextIdem ==
  \/ UserConnect(<<>>) \/ UserConnectConnected(<<>>)
  \/ UserClose
  \/ \E l \in 1..MaxLoops : DialOk(l) \/ ResurrectDone(l)
  \/ \E name \in ChanNames : ChanConnect(name)
  \/ \E i \in 1..MaxPend : CreateChannelOk(i) \/ CreateChannelFail(i)
  \/ \E u \in 1..MaxChans : onClose(u)
  \/ \E c \in 1..MaxConns : ConnDrop(c) \/ ConnCloseEvent(c) \/ CloseReply(c)

SpecIdem == InitChan /\ [][NextIdem]_vars

\* what the driver and the connect loops see of the broker
DriverSide == <<client, dials, loops, finished, cursor, nconn, live, closers, events, uchans, pend, channels>>

\* C15: connect() called while the broker is connected issues no dial and
\* keeps the same connection; close() called while the broker is
\* disconnected calls the driver for nothing (no connection is closed, no
\* close event is caused) and leaves the broker disconnected.
C15_Idempotent ==
  /\ [][UserConnectConnected(<<>>) => (connected /\ DriverSide' = DriverSide)]_vars
  /\ [][(UserClose /\ ~connected) =>
          (~connected' /\ closing' = closing /\ DriverSide' = DriverSide)]_vars

\* two calls of connect() / close() were made and exactly one of them
\* reached the driver: the single dial, on which the broker is connected
C15_Witness ==
  /\ calls = 2
  /\ Len(dials) = 1 /\ dials[1].owner = "user"
  /\ client = 1 /\ client \in live
  /\ closers = {} /\ ~closing

(***************************************************************************)
(* sub() and cancel() of one Queue entity, in any interleaving.            *)
(***************************************************************************)
NextCons ==
  \/ UserConnect(<<>>)
  \/ \E l \in 1..MaxLoops : DialOk(l)
  \/ ChanConnect("__read__")
  \/ \E i \in 1..MaxPend : CreateChannelOk(i)
  \/ SubCall
  \/ \E i \in 1..MaxSubs : SubReply(i)
  \/ CancelCall
  \/ \E t \in 1..MaxSubs : CancelReply(t)
  \/ \E t \in 1..MaxSubs : Deliver(t)
  \/ \E i \in 1..MaxDeliveries : Settle(i)

SpecCons == InitSub /\ [][NextCons]_vars

\* the consumers of the entity that the server is delivering to
ActiveConsumers == {t \in 1..Len(consumers) : consumers[t].on /\ uchans[consumers[t].uch].open}

\* the consume calls of the entity that the server has not answered yet
PendingConsumes == {i \in 1..Len(subs) : uchans[subs[i]].open}

\* C16: the entity never has more than one consumer on the server, and
\* sub() issues a consume call only when the entity has no consumer and no
\* consume call awaiting its reply.
C16_OneSubscription ==
  /\ [](Cardinality(ActiveConsumers) <= 1)
  /\ [][Len(subs') > Len(subs) => (ActiveConsumers = {} /\ PendingConsumes = {})]_vars

(***************************************************************************)
(* Properties of the handler chain (one callback run on `chain`).          *)
(***************************************************************************)
\* the handler signals "proceed" at some point: next() or next(true)
Proceeds(h) == \E k \in 1..Len(h.sigs) : h.sigs[k] \in {"undef", "true"}

\* C17: a handler is invoked only if every handler before it signalled
\* next() or next(true): after a handler that returns without calling next,
\* or that only calls next(false) / next(err), no later handler is invoked.
C17_OnlyAfterProceed ==
  \A p \in 1..Len(last.inv) : \A i \in 1..(last.inv[p] - 1) : Proceeds(chain[i])

\* the same for chains in which no handler calls next(true)
C17_WithoutNextTrue ==
  (\A i \in 1..Len(chain) : "true" \notin Range(chain[i].sigs)) => C17_OnlyAfterProceed

\* the chain in which every next(true) is written next()
AsNext(hs) ==
  [i \in 1..Len(hs) |->
     [hs[i] EXCEPT !.sigs = [k \in 1..Len(hs[i].sigs) |->
                               IF hs[i].sigs[k] = "true" THEN "undef" ELSE hs[i].sigs[k]]]]

\* the handlers entered and the acks / nacks issued, in order
Visible(log) ==
  LET seen == SelectSeq(log, LAMBDA x : x.e \in {"enter", "ack", "nack"})
  IN  [k \in 1..Len(seen) |-> <<seen[k].e, seen[k].h>>]

\* every handler proceeds once with next(true) and returns
AllNextTrue(hs) ==
  \A i \in 1..Len(hs) : hs[i].sigs = <<"true">> /\ hs[i].end = "return"

\* C18: while "__read__" is open, a chain of two or more handlers run with
\* next(true) enters the same handlers in the same order and issues its
\* ack / nack at the same point as the chain in which next(true) is written
\* next(); when every handler proceeds with next(true) the handlers are
\* entered once each, H1 to Hn, before the ack.
C18_NextTrueIsNext ==
  (last.n >= 2 /\ UsableChannel("__read__")) =>
    /\ Visible(last.log) = Visible(OnMessage(AsNext(chain), TRUE, dlx).log)
    /\ AllNextTrue(chain) =>
          Visible(last.log) = [k \in 1..(last.n + 1) |->
                                 IF k <= last.n THEN <<"enter", k>> ELSE <<"ack", 0>>]

\* C19: when a handler throws or rejects (without having called next) while
\* "__read__" is open, the delivery gets a nack and no ack, wherever the
\* handler is in the chain and whether or not the handler that invoked it
\* awaits next().
C19_FailureIsNacked ==
  (last.n > 0 /\ Plain(chain) /\ last.threw /\ UsableChannel("__read__")) =>
    (Len(last.ops) = 1 /\ last.ops[1].kind = "nack")

\* handler h called next at position p of the log and got the awaited
\* result at position r
AwaitSpan(log, p, r) ==
  /\ p < r
  /\ log[p].e = "next" /\ log[r].e = "resume" /\ log[r].h = log[p].h
  /\ \A q \in (p + 1)..(r - 1) : ~(log[q].e \in {"next", "resume"} /\ log[q].h = log[p].h)

\* C20: while a handler awaits next(), no handler is entered whose promise
\* nobody awaits: every asynchronous handler entered meanwhile has settled
\* when the awaited future resolves (in chains whose handlers all await
\* their calls of next).
C20_AwaitSeesDownstream ==
  Awaited(chain) =>
    \A p, r \in 1..Len(last.log) : AwaitSpan(last.log, p, r) =>
      \A q \in (p + 1)..(r - 1) :
        ~(last.log[q].e = "enter" /\ last.log[q].det /\ chain[last.log[q].h].mode = "await")

\* C19 for chains whose handlers await next() and never call next(true)
C19_WhenAwaited ==
  (Awaited(chain) /\ \A i \in 1..Len(chain) : "true" \notin Range(chain[i].sigs))
    => C19_FailureIsNacked

\* the same for chains in which no handler calls next(true)
C20_WithoutNextTrue ==
  (\A i \in 1..Len(chain) : "true" \notin Range(chain[i].sigs)) => C20_AwaitSeesDownstream

(***************************************************************************)
(* Queue.cancel().                                                         *)
(***************************************************************************)
\* a cancel call for consumer t goes to the driver in this step
CancelIssued(t) ==
  /\ t \in 1..Len(consumers) /\ t \in 1..Len(consumers')
  /\ consumers'[t].cancels > consumers[t].cancels

\* the driver answers a cancel call for consumer t in this step
CancelAnswered(t) ==
  /\ t \in 1..Len(consumers) /\ t \in 1..Len(consumers')
  /\ consumers'[t].cancels < consumers[t].cancels
  /\ uchans[consumers[t].uch].open

ChannelOf(e) == IF e.t = "exchange" THEN "__write__" ELSE "__read__"

Call(op, ex, q, key, cnf, uch, run, slot) ==
  [op |-> op, exchange |-> ex, queue |-> q, key |-> key, cnf |-> cnf, uch |-> uch,
   st |-> "sent", run |-> run, slot |-> slot]

\* channel.assertExchange(this.name, ...) / channel.assertQueue(this.name, this.config)
DeclareCall(e, cnf, run, slot) ==
  IF e.t = "exchange"
    THEN Call("assertExchange", e.name, "", "", cnf, channels["__write__"]._channel, run, slot)
    ELSE Call("assertQueue", "", e.name, "", cnf, channels["__read__"]._channel, run, slot)

\* an assert() call of the user on e has not settled yet
InFlight(e) ==
  \E a \in 1..Len(asserts) : asserts[a].ent = e /\ asserts[a].pc \in {"connect", "sent"}

\* an assert() that declares again whatever the flag says
AssertCall_always(e) ==
  /\ Len(asserts) < MaxAsserts
  /\ asserts' = Append(asserts, [ent |-> e, pc |-> "connect", ret |-> "",
                                  over |-> InFlight(e)])
  /\ UNCHANGED <<topology, asserted, declares, prefetch, setups>>
  /\ UNCHANGED <<brokerVars, driverVars, chanVars, queueVars, cfgVars>>

\* assert() called by the user: if (this.asserted) return this, else the
\* call awaits channel.connect()
AssertCall(e) ==
  /\ Len(asserts) < MaxAsserts
  /\ asserts' = Append(asserts, [ent |-> e, pc |-> IF asserted[e] THEN "done" ELSE "connect",
                                  ret |-> IF asserted[e] THEN e.name ELSE "",
                                  over |-> InFlight(e)])
  /\ UNCHANGED <<topology, asserted, declares, prefetch, setups>>
  /\ UNCHANGED <<brokerVars, driverVars, chanVars, queueVars, cfgVars>>

\* channel.connect() has resolved for assert() call a: the declare goes out
\* (on a channel that has closed meanwhile the call rejects)
AssertDeclare(a) ==
  /\ a \in 1..Len(asserts)
  /\ asserts[a].pc = "connect"
  /\ channels[ChannelOf(asserts[a].ent)]._channel # 0
  /\ IF UsableChannel(ChannelOf(asserts[a].ent))
       THEN /\ declares' = Append(declares, DeclareCall(asserts[a].ent, "default", 0, a))
            /\ asserts' = [asserts EXCEPT ![a].pc = "sent"]
       ELSE /\ asserts' = [asserts EXCEPT ![a].pc = "failed"]
            /\ UNCHANGED declares
  /\ UNCHANGED <<topology, asserted, prefetch, setups>>
  /\ UNCHANGED <<brokerVars, driverVars, chanVars, queueVars, cfgVars>>

\* the entry of configuration.queues used for queue q: queues[q] || {}
QueueCnf(q) == IF q \in Range(topology.queues) THEN q ELSE "default"

\* what setup() makes of the entry of one exchange: the queues it asserts
\* and, for each of them, the routing keys it binds the queue with
Fan(cfg) ==
  IF cfg.kind = "fanout"
    THEN [k \in 1..Len(cfg.list) |-> [queue |-> cfg.list[k], keys |-> <<"">>]]
    ELSE [k \in 1..Len(cfg.map) |-> [queue |-> cfg.map[k].key, keys |-> cfg.map[k].val]]

AllDone(slots) == \A k \in 1..Len(slots) : slots[k].st = "done"

\* setup(): the head of one turn of "for (const exchange in exchanges)":
\* ex = await this.exchange(name, cnf).assert(); after the last exchange
\* the loop over configuration.queues starts
SetupLoop(r) ==
  /\ r \in 1..Len(setups)
  /\ \/ setups[r].pc = "loop"
     \/ setups[r].pc = "fan" /\ AllDone(setups[r].slots)
  /\ LET s == setups[r]
         i == IF s.pc = "loop" THEN s.i ELSE s.i + 1
     IN  setups' = [setups EXCEPT ![r] =
           IF i > Len(topology.exchanges)
             THEN [s EXCEPT !.pc = "queues", !.i = i, !.slots = <<>>, !.qi = 1]
             ELSE [s EXCEPT !.i = i, !.slots = <<>>,
                            !.pc = IF asserted[Exchange(ExchangeNames[i])]
                                     THEN "asserted" ELSE "exchange"]]
  /\ UNCHANGED entityVars
  /\ UNCHANGED <<brokerVars, driverVars, chanVars, queueVars, cfgVars>>

\* the entity the loop of run r is asserting
Current(s) ==
  IF s.pc = "exchange" THEN Exchange(ExchangeNames[s.i]) ELSE Queue(topology.queues[s.qi])

\* the declare of the assert() the loop of run r awaits
SetupDeclare(r) ==
  /\ r \in 1..Len(setups)
  /\ setups[r].pc \in {"exchange", "queue"}
  /\ LET s == setups[r]
         e == Current(s)
     IN  /\ channels[ChannelOf(e)]._channel # 0
         /\ IF UsableChannel(ChannelOf(e))
              THEN /\ declares' = Append(declares, DeclareCall(e, e.name, r, 0))
                   /\ setups' = [setups EXCEPT ![r].pc =
                                   IF e.t = "exchange" THEN "exchangeSent" ELSE "queueSent"]
              ELSE /\ setups' = [setups EXCEPT ![r].pc = "failed"]
                   /\ UNCHANGED declares
  /\ UNCHANGED <<topology, asserted, asserts, prefetch>>
  /\ UNCHANGED <<brokerVars, driverVars, chanVars, queueVars, cfgVars>>

\* the exchange is asserted: Promise.all(Object.keys(map).map(queue =>
\* this.queue(qname, qcnf).assert().then(...))) calls every assert() at once
SetupFan(r) ==
  /\ r \in 1..Len(setups)
  /\ setups[r].pc = "asserted"
  /\ LET fan == Fan(topology.exchanges[setups[r].i])
     IN  setups' = [setups EXCEPT ![r].pc = "fan",
                      ![r].slots = [k \in 1..Len(fan) |->
                         [st |-> IF asserted[Queue(fan[k].queue)] THEN "bind" ELSE "connect",
                          left |-> 0]]]
  /\ UNCHANGED entityVars
  /\ UNCHANGED <<brokerVars, driverVars, chanVars, queueVars, cfgVars>>

\* the declare of the queue of slot k
SlotDeclare(r, k) ==
  /\ r \in 1..Len(setups)
  /\ k \in 1..Len(setups[r].slots)
  /\ setups[r].slots[k].st = "connect"
  /\ channels["__read__"]._channel # 0
  /\ LET q == Fan(topology.exchanges[setups[r].i])[k].queue
     IN  IF UsableChannel("__read__")
           THEN /\ declares' = Append(declares, DeclareCall(Queue(q), QueueCnf(q), r, k))
                /\ setups' = [setups EXCEPT ![r].slots[k].st = "sent"]
           ELSE /\ setups' = [setups EXCEPT ![r].slots[k].st = "failed"]
                /\ UNCHANGED declares
  /\ UNCHANGED <<topology, asserted, asserts, prefetch>>
  /\ UNCHANGED <<brokerVars, driverVars, chanVars, queueVars, cfgVars>>

\* a loader that binds without waiting for the queue to be asserted
SlotBind_early(r, k) ==
  /\ r \in 1..Len(setups)
  /\ k \in 1..Len(setups[r].slots)
  /\ setups[r].slots[k].st \in {"bind", "connect"}
  /\ LET f == Fan(topology.exchanges[setups[r].i])[k]
         ex == ExchangeNames[setups[r].i]
         binds == [j \in 1..Len(f.keys) |->
                     Call("bindQueue", ex, f.queue, f.keys[j], "",
                          channels["__write__"]._channel, r, k)]
     IN  IF UsableChannel("__write__")
           THEN /\ declares' = declares \o binds
                /\ setups' = [setups EXCEPT ![r].slots[k] =
                                [st |-> "binding", left |-> Len(f.keys)]]
           ELSE /\ setups' = [setups EXCEPT ![r].slots[k].st = "failed"]
                /\ UNCHANGED declares
  /\ UNCHANGED <<topology, asserted, asserts, prefetch>>
  /\ UNCHANGED <<brokerVars, driverVars, chanVars, queueVars, cfgVars>>

\* the queue of slot k is asserted: ex.bind(q, rk) for each of its routing
\* keys, this.broker.channel("__write__").bindQueue(queue.name, this.name, rk)
SlotBind(r, k) ==
  /\ r \in 1..Len(setups)
  /\ k \in 1..Len(setups[r].slots)
  /\ setups[r].slots[k].st = "bind"
  /\ LET f == Fan(topology.exchanges[setups[r].i])[k]
         ex == ExchangeNames[setups[r].i]
         binds == [j \in 1..Len(f.keys) |->
                     Call("bindQueue", ex, f.queue, f.keys[j], "",
                          channels["__write__"]._channel, r, k)]
     IN  IF UsableChannel("__write__")
           THEN /\ declares' = declares \o binds
                /\ setups' = [setups EXCEPT ![r].slots[k] =
                                [st |-> "binding", left |-> Len(f.keys)]]
           ELSE /\ setups' = [setups EXCEPT ![r].slots[k].st = "failed"]
                /\ UNCHANGED declares
  /\ UNCHANGED <<topology, asserted, asserts, prefetch>>
  /\ UNCHANGED <<brokerVars, driverVars, chanVars, queueVars, cfgVars>>

\* one turn of "for (const queue in this.configuration.queues)":
\* await this.queue(name, cnf).assert()
SetupQueue(r) ==
  /\ r \in 1..Len(setups)
  /\ setups[r].pc = "queues"
  /\ LET s == setups[r]
     IN  setups' = [setups EXCEPT ![r] =
           IF s.qi > Len(topology.queues) THEN [s EXCEPT !.pc = "done"]
           ELSE IF asserted[Queue(topology.queues[s.qi])] THEN [s EXCEPT !.qi = @ + 1]
           ELSE [s EXCEPT !.pc = "queue"]]
  /\ UNCHANGED entityVars
  /\ UNCHANGED <<brokerVars, driverVars, chanVars, queueVars, cfgVars>>

\* the entity a declare call is about
EntityOf(c) == IF c.op = "assertExchange" THEN Exchange(c.exchange) ELSE Queue(c.queue)

\* the caller that awaits call c goes on (ok) or sees the rejection (a
\* rejected slot rejects the Promise.all and with it setup(): the run stays
\* where it is)
ResumeSetup(c, ok) ==
  IF c.run = 0 THEN setups
  ELSE LET s == setups[c.run]
       IN  [setups EXCEPT ![c.run] =
             IF c.slot = 0
               THEN IF ~ok THEN [s EXCEPT !.pc = "failed"]
                    ELSE IF c.op = "assertExchange" THEN [s EXCEPT !.pc = "asserted"]
                    ELSE [s EXCEPT !.pc = "queues", !.qi = @ + 1]
               ELSE IF ~ok THEN [s EXCEPT !.slots[c.slot].st = "failed"]
                    ELSE IF c.op = "assertQueue" THEN [s EXCEPT !.slots[c.slot].st = "bind"]
                    ELSE [s EXCEPT !.slots[c.slot].left = @ - 1,
                                   !.slots[c.slot].st =
                                      IF @ = "binding" /\ s.slots[c.slot].left = 1
                                        THEN "done" ELSE @]]

ResumeAssert(c, ok) ==
  IF c.run # 0 THEN asserts
  ELSE [asserts EXCEPT ![c.slot].pc = IF ok THEN "done" ELSE "failed",
                       ![c.slot].ret = IF ok THEN asserts[c.slot].ent.name ELSE ""]

\* the replies of one channel come in the order of its calls
InOrder(d) ==
  \A j \in 1..(d - 1) : declares[j].uch = declares[d].uch => declares[j].st # "sent"

\* an assert() that sets its flag but never asks for prefetch
Prefetched_never(c) == prefetch

\* channel.prefetch(1) of Queue.assert(), on the channel "__read__" holds
Prefetched(c) ==
  IF c.op = "assertQueue" /\ channels["__read__"]._channel # 0
    THEN prefetch \cup {channels["__read__"]._channel} ELSE prefetch

\* the server has answered call d: after a declare, this.asserted = true
\* (and channel.prefetch(1) for a queue); then the awaiting caller goes on
DriverReply(d) ==
  /\ d \in 1..Len(declares)
  /\ declares[d].st = "sent"
  /\ uchans[declares[d].uch].open
  /\ InOrder(d)
  /\ declares' = [declares EXCEPT ![d].st = "ok"]
  /\ asserted' = IF declares[d].op = "bindQueue" THEN asserted
                 ELSE [asserted EXCEPT ![EntityOf(declares[d])] = TRUE]
  /\ prefetch' = Prefetched(declares[d])
  /\ setups' = ResumeSetup(declares[d], TRUE)
  /\ asserts' = ResumeAssert(declares[d], TRUE)
  /\ UNCHANGED topology
  /\ UNCHANGED <<brokerVars, driverVars, chanVars, queueVars, cfgVars>>

\* call d was sent on a channel that has closed: it rejects
DriverReject(d) ==
  /\ d \in 1..Len(declares)
  /\ declares[d].st = "sent"
  /\ ~uchans[declares[d].uch].open
  /\ declares' = [declares EXCEPT ![d].st = "failed"]
  /\ setups' = ResumeSetup(declares[d], FALSE)
  /\ asserts' = ResumeAssert(declares[d], FALSE)
  /\ UNCHANGED <<topology, asserted, prefetch>>
  /\ UNCHANGED <<brokerVars, driverVars, chanVars, queueVars, cfgVars>>

(***************************************************************************)
(* Entities asserted by the user: an exchange and a queue of a single-node *)
(* broker; the channels "__read__" and "__write__" may break and reopen.   *)
(***************************************************************************)
AssertEntities == {Exchange("ex1"), Queue("a")}

NextAssert ==
  \/ UserConnect(<<>>)
  \/ \E l \in 1..MaxLoops : DialOk(l)
  \/ ChanConnect("__read__") \/ ChanConnect("__write__")
  \/ \E i \in 1..MaxPend : CreateChannelOk(i)
  \/ \E u \in 1..MaxChans : UchanBreak(u) \/ onClose(u)
  \/ \E e \in AssertEntities : AssertCall(e)
  \/ \E a \in 1..MaxAsserts : AssertDeclare(a)
  \/ \E d \in 1..MaxAsserts : DriverReply(d) \/ DriverReject(d)

SpecAssert == InitChan /\ [][NextAssert]_vars

\* the user calls assert() on e
AssertCalled(e) ==
  /\ Len(asserts') = Len(asserts) + 1
  /\ asserts'[Len(asserts')].ent = e

\* the declare calls assert() call a of the user has sent
DeclaresOf(a) == {d \in 1..Len(declares) : declares[d].run = 0 /\ declares[d].slot = a}

\* C22: assert() is idempotent per entity instance: a call made after an
\* assert() on the entity has succeeded returns that entity at once and
\* sends no assertExchange / assertQueue, then or later
C22_AssertIdempotent ==
  /\ [][\A e \in AssertEntities : (AssertCalled(e) /\ asserted[e]) =>
          /\ asserts'[Len(asserts')].pc = "done"
          /\ asserts'[Len(asserts')].ret = e.name
          /\ declares' = declares]_vars
  /\ [][\A a \in 1..Len(asserts) : asserts[a].pc = "done" =>
          (asserts'[a] = asserts[a] /\ DeclaresOf(a)' = DeclaresOf(a))]_vars
  /\ [](\A e \in AssertEntities : asserted[e] =>
          \E d \in 1..Len(declares) : declares[d].st = "ok" /\ EntityOf(declares[d]) = e)

\* a second assert() on an asserted entity has returned without a declare
C22_Witness ==
  \E a \in 1..Len(asserts) :
    /\ asserts[a].pc = "done" /\ DeclaresOf(a) = {}
    /\ asserts[a].ret = asserts[a].ent.name
    /\ \E b \in 1..(a - 1) : asserts[b].ent = asserts[a].ent /\ DeclaresOf(b) # {}

\* C23: an assert() that starts while another assert() on the same entity
\* awaits its reply is a no-op: it sends no declare of its own
C23_OverlapIsNoop ==
  \A a \in 1..Len(asserts) : asserts[a].over => DeclaresOf(a) = {}

(***************************************************************************)
(* The topology loader on a single-node broker whose connection stays up:  *)
(* connect() runs setup() over the configured exchanges and queues.        *)
(***************************************************************************)
InitTopo ==
  /\ InitCommon
  /\ InitLoaded
  /\ topology \in Topologies
  /\ nodes = 1
  /\ policy = [retry |-> Infinity, frequency |-> 0]
  /\ dlx = undefined

NextTopo ==
  \/ UserConnect(<<>>)
  \/ \E l \in 1..MaxLoops : DialOk(l)
  \/ ChanConnect("__read__") \/ ChanConnect("__write__")
  \/ \E i \in 1..MaxPend : CreateChannelOk(i)
  \/ \E r \in 1..MaxConns : SetupLoop(r) \/ SetupDeclare(r) \/ SetupFan(r) \/ SetupQueue(r)
  \/ \E r \in 1..Len(setups) : \E k \in 1..Len(setups[r].slots) :
        SlotDeclare(r, k) \/ SlotBind(r, k)
  \/ \E d \in 1..Len(declares) : DriverReply(d)

SpecTopo == InitTopo /\ [][NextTopo]_vars

(***************************************************************************)
(* The same loader when the connection may drop: the close listener        *)
(* reconnects, the registered channels are resurrected and setup() runs    *)
(* again over the new connection.  The configuration has a single entry,   *)
(* and the connection drops once the loader has finished its run.          *)
(***************************************************************************)
SetupsDone == \A r \in 1..Len(setups) : setups[r].pc = "done"

InitReconnect ==
  /\ InitCommon
  /\ InitLoaded
  /\ topology \in {t \in Topologies : Len(t.exchanges) + Len(t.queues) = 1}
  /\ nodes = 1
  /\ policy = [retry |-> Infinity, frequency |-> 0]
  /\ dlx = undefined

NextReconnect ==
  \/ UserConnect(<<>>)
  \/ \E l \in 1..MaxLoops : DialOk(l) \/ ResurrectDone(l)
  \/ ChanConnect("__read__") \/ ChanConnect("__write__")
  \/ \E i \in 1..MaxPend : CreateChannelOk(i) \/ CreateChannelFail(i)
  \/ \E u \in 1..MaxChans : onClose(u)
  \/ \E c \in 1..MaxConns : (SetupsDone /\ ConnDrop(c)) \/ ConnCloseEvent(c)
  \/ \E r \in 1..MaxConns : SetupLoop(r) \/ SetupDeclare(r) \/ SetupFan(r) \/ SetupQueue(r)
  \/ \E r \in 1..Len(setups) : \E k \in 1..Len(setups[r].slots) :
        SlotDeclare(r, k) \/ SlotBind(r, k)
  \/ \E d \in 1..Len(declares) : DriverReply(d)

SpecReconnect == InitReconnect /\ [][NextReconnect]_vars

\* call d was sent after the declare of entity e had been acknowledged
DeclaredBefore(e, d) ==
  \E j \in 1..(d - 1) :
    /\ declares[j].op \in {"assertExchange", "assertQueue"}
    /\ EntityOf(declares[j]) = e
    /\ declares[j].st = "ok"

\* slot k of run r sends the declare of its queue
SlotDeclares(r, k) ==
  /\ r \in 1..Len(setups) /\ k \in 1..Len(setups[r].slots)
  /\ setups[r].slots[k].st = "connect"
  /\ setups'[r].slots[k].st = "sent"

\* the calls of the loader that serve the exchanges: every call but the
\* declares of the loop over configuration.queues
OfExchanges(c) == c.op # "assertQueue" \/ c.slot # 0

Wanted ==
  LET ex(i) == ExchangeNames[i]
      fan(i) == Fan(topology.exchanges[i])
      n == Len(topology.exchanges)
  IN  {[op |-> "assertExchange", exchange |-> ex(i), queue |-> "", key |-> ""] : i \in 1..n}
      \cup UNION {{[op |-> "assertQueue", exchange |-> "", queue |-> fan(i)[k].queue, key |-> ""]
                     : k \in 1..Len(fan(i))} : i \in 1..n}
      \cup UNION {UNION {{[op |-> "bindQueue", exchange |-> ex(i), queue |-> fan(i)[k].queue,
                           key |-> fan(i)[k].keys[j]] : j \in 1..Len(fan(i)[k].keys)}
                           : k \in 1..Len(fan(i))} : i \in 1..n}
      \cup {[op |-> "assertQueue", exchange |-> "", queue |-> topology.queues[q], key |-> ""]
              : q \in 1..Len(topology.queues)}

\* the calls the server has acknowledged over connection c
DeclaredOver(c) ==
  {[op |-> declares[d].op, exchange |-> declares[d].exchange, queue |-> declares[d].queue,
    key |-> declares[d].key] :
      d \in {j \in 1..Len(declares) : declares[j].st = "ok" /\ uchans[declares[j].uch].conn = c}}

\* C25: when the loader run of a successful connect is over, every
\* configured exchange, queue and binding has been declared over the
\* connection of that connect (while the broker holds it), be it the first
\* connection or a reconnection
C25_AssertedOnEveryConnect ==
  \A r \in 1..Len(setups) :
    (setups[r].pc = "done" /\ client = setups[r].conn /\ client \in live)
       => Wanted \subseteq DeclaredOver(client)

\* the entries of exchange i when it carries a topics or a direct map
MapOf(i) ==
  IF topology.exchanges[i].kind \in {"topics", "direct"} THEN topology.exchanges[i].map ELSE <<>>

\* C26: an entry of a topics (or direct) map is read as routingKey ->
\* queue(s): once the loader is done, every queue named by the value of an
\* entry has been declared (with its entry of configuration.queues, else
\* with the default config) and bound to the exchange with the key of the
\* entry as routing key
C26_KeyIsRoutingKey ==
  \A r \in 1..Len(setups) : setups[r].pc = "done" =>
    \A i \in 1..Len(topology.exchanges) : \A m \in 1..Len(MapOf(i)) :
      \A v \in 1..Len(MapOf(i)[m].val) :
        LET q == MapOf(i)[m].val[v]
        IN  /\ \E d \in 1..Len(declares) :
                 /\ declares[d].op = "assertQueue" /\ declares[d].queue = q
                 /\ declares[d].cnf = QueueCnf(q)
            /\ \E d \in 1..Len(declares) :
                 /\ declares[d].op = "bindQueue" /\ declares[d].queue = q
                 /\ declares[d].exchange = ExchangeNames[i]
                 /\ declares[d].key = MapOf(i)[m].key

(***************************************************************************)
(* A queue that is asserted and then subscribed to, on a channel           *)
(* "__read__" that may break and reopen: the server delivers as the        *)
(* prefetch count of the channel allows.                                   *)
(***************************************************************************)
NextPrefetch ==
  \/ UserConnect(<<>>)
  \/ \E l \in 1..MaxLoops : DialOk(l)
  \/ ChanConnect("__read__")
  \/ \E i \in 1..MaxPend : CreateChannelOk(i)
  \/ \E u \in 1..MaxChans : UchanBreak(u) \/ onClose(u)
  \/ AssertCall(Queue("a"))
  \/ \E a \in 1..MaxAsserts : AssertDeclare(a)
  \/ \E d \in 1..Len(declares) : DriverReply(d) \/ DriverReject(d)
  \/ (asserted[Queue("a")] /\ SubCall)
  \/ \E i \in 1..MaxSubs : SubReply(i)
  \/ \E t \in 1..MaxSubs : Deliver(t)
  \/ \E i \in 1..MaxDeliveries : Settle(i)

SpecPrefetch == InitChan /\ [][NextPrefetch]_vars

\* C27: within one subscription the deliveries are handled one at a time:
\* no two deliveries of one consumer are unsettled at the same time, also
\* after "__read__" was reopened
C27_OneAtATime ==
  \A i \in 1..Len(deliveries) : \A j \in 1..Len(deliveries) :
    (i < j /\ deliveries[i].tag = deliveries[j].tag)
       => ~(deliveries[i].state = "running" /\ deliveries[j].state = "running")

(***************************************************************************)
(* The configuration loader (configuration.ts).  A JavaScript value is     *)
(* undefined, a string (the sequence of its characters) or a number.  A    *)
(* number is kept as sign and magnitude, the magnitude in two limbs        *)
(* hi * 2^16 + lo, so that 2^32 and its neighbours are exact.              *)
(***************************************************************************)
Limb == 2 ^ 16
Undef == [t |-> "undefined"]
NaN == [t |-> "NaN"]
Str(s) == [t |-> "string", s |-> s]
Num(neg, hi, lo) == [t |-> "number", neg |-> neg, hi |-> hi, lo |-> lo]
Whole(n) == Num(FALSE, n \div Limb, n % Limb)
Minus(n) == Num(TRUE, n \div Limb, n % Limb)

IsZero(a) == a.hi = 0 /\ a.lo = 0
MagLess(a, b) == a.hi < b.hi \/ (a.hi = b.hi /\ a.lo < b.lo)

\* a < b on numbers
Less(a, b) ==
  IF a.neg /\ ~IsZero(a) THEN ~b.neg \/ IsZero(b) \/ MagLess(b, a)
  ELSE IF b.neg /\ ~IsZero(b) THEN FALSE
  ELSE MagLess(a, b)

\* !!v
JsTruthy(v) ==
  CASE v.t = "string" -> v.s # <<>>
    [] v.t = "number" -> ~IsZero(v)
    [] OTHER -> FALSE

Digits == <<"0", "1", "2", "3", "4", "5", "6", "7", "8", "9">>
IsDigit(c) == \E d \in 1..Len(Digits) : Digits[d] = c
DigitOf(c) == (CHOOSE d \in 1..Len(Digits) : Digits[d] = c) - 1
AllDigits(s) == s # <<>> /\ \A i \in 1..Len(s) : IsDigit(s[i])

RECURSIVE Magnitude(_, _)
Magnitude(acc, s) ==
  IF s = <<>> THEN acc
  ELSE LET l == acc.lo * 10 + DigitOf(Head(s))
       IN  Magnitude([hi |-> acc.hi * 10 + l \div Limb, lo |-> l % Limb], Tail(s))

\* Number(v) for the decimal notations: digits with an optional minus sign;
\* the empty string is 0, any other text is NaN
ToNumber(v) ==
  IF v.t = "number" THEN v
  ELSE IF v.t # "string" THEN NaN
  ELSE IF v.s = <<>> THEN Whole(0)
  ELSE LET neg == Head(v.s) = "-"
           ds == IF neg THEN Tail(v.s) ELSE v.s
           m == Magnitude([hi |-> 0, lo |-> 0], ds)
       IN  IF AllDigits(ds) THEN Num(neg, m.hi, m.lo) ELSE NaN

RECURSIVE Decimal(_, _)
Decimal(hi, lo) ==
  LET l == (hi % 10) * Limb + lo
  IN  IF hi = 0 /\ lo < 10 THEN <<Digits[lo + 1]>>
      ELSE Append(Decimal(hi \div 10, l \div 10), Digits[(l % 10) + 1])

\* `${v}`
TextOf(v) ==
  CASE v.t = "string" -> v.s
    [] v.t = "number" -> (IF v.neg /\ ~IsZero(v) THEN <<"-">> ELSE <<>>) \o Decimal(v.hi, v.lo)
    [] v.t = "NaN" -> <<"N", "a", "N">>
    [] OTHER -> <<"u", "n", "d", "e", "f", "i", "n", "e", "d">>

\* what a call returns, or the error it throws: `Invalid <field> '<value>'`
Ok(v) == [ok |-> TRUE, v |-> v]
Thrown(msg, v) == [ok |-> FALSE, error |-> msg, value |-> TextOf(v)]

\* a validator whose upper bound is exclusive
validateNumber_exclusive(value, fallback, min, max, err) ==
  IF value.t = "undefined" \/ value = Str(<<>>) THEN Ok(fallback)
  ELSE LET v == ToNumber(value)
       IN  IF v.t = "NaN" THEN Thrown(err, value)
           ELSE IF Less(v, min) \/ ~Less(v, max) THEN Thrown(err, value)
           ELSE Ok(v)

validateNumber(value, fallback, min, max, err) ==
  IF value.t = "undefined" \/ value = Str(<<>>) THEN Ok(fallback)
  ELSE LET v == ToNumber(value)
       IN  IF v.t = "NaN" THEN Thrown(err, value)
           ELSE IF Less(v, min) \/ Less(max, v) THEN Thrown(err, value)
           ELSE Ok(v)

amqp == Str(<<"a", "m", "q", "p">>)
amqps == Str(<<"a", "m", "q", "p", "s">>)
guest == Str(<<"g", "u", "e", "s", "t">>)
localhost == Str(<<"l", "o", "c", "a", "l", "h", "o", "s", "t">>)
en_US == Str(<<"e", "n", "_", "U", "S">>)
slash == Str(<<"/">>)
PortMax == Num(FALSE, 0, Limb - 1)
ChannelMaxMax == Num(FALSE, 0, Limb - 1)
FrameMaxMax == Num(FALSE, Limb - 1, Limb - 1)
HeartbeatMax == Num(FALSE, Limb - 1, Limb - 1)

FieldNames ==
  {"protocol", "hostname", "username", "password", "port", "channelMax", "frameMax",
   "heartbeat", "locale", "vhost"}

validateConnection(connection) ==
  LET port == validateNumber(connection.port, Whole(5672), Whole(0), PortMax, "Invalid port")
      channelMax == validateNumber(connection.channelMax, Whole(0), Whole(0), ChannelMaxMax,
                                   "Invalid channelMax")
      frameMax == validateNumber(connection.frameMax, Whole(0), Whole(0), FrameMaxMax,
                                 "Invalid frameMax")
      heartbeat == validateNumber(connection.heartbeat, Whole(0), Whole(0), HeartbeatMax,
                                  "Invalid heartbeat")
      vhost == IF JsTruthy(connection.vhost) THEN connection.vhost ELSE slash
  IN  IF JsTruthy(connection.protocol) /\ connection.protocol \notin {amqp, amqps}
        THEN Thrown("Invalid protocol", connection.protocol)
      ELSE IF ~port.ok THEN port
      ELSE IF ~channelMax.ok THEN channelMax
      ELSE IF ~frameMax.ok THEN frameMax
      ELSE IF ~heartbeat.ok THEN heartbeat
      ELSE IF Head(TextOf(vhost)) # "/" THEN Thrown("Invalid vhost", vhost)
      ELSE Ok([protocol |-> IF connection.protocol = amqps THEN amqps ELSE amqp,
               hostname |-> IF connection.hostname.t = "undefined"
                              THEN localhost ELSE connection.hostname,
               username |-> IF JsTruthy(connection.username)
                              THEN connection.username ELSE guest,
               password |-> IF JsTruthy(connection.username)
                              THEN connection.password ELSE guest,
               port |-> port.v, channelMax |-> channelMax.v, frameMax |-> frameMax.v,
               heartbeat |-> heartbeat.v,
               locale |-> IF connection.locale.t = "undefined"
                            THEN en_US ELSE connection.locale,
               vhost |-> vhost])

\* new URL(connectionString), on the parts of the string: the parser
\* refuses a port that is not a decimal number up to 65535
UrlParts ==
  {"protocol", "hostname", "username", "password", "port", "pathname", "channelMax",
   "frameMax", "heartbeat"}

NewURL(url) ==
  IF url.port # <<>> /\ (~AllDigits(url.port) \/ Less(PortMax, ToNumber(Str(url.port))))
    THEN [ok |-> FALSE, error |-> "Invalid URL", value |-> url.port]
    ELSE Ok(url)

\* params.<name> ?? 0
OrZero(v) == IF v.t = "undefined" THEN Whole(0) ELSE v

connectionStringToObject(cs) ==
  LET parsed == NewURL(cs)
      url == parsed.v
  IN  IF ~parsed.ok THEN parsed
      ELSE validateConnection(
             [protocol |-> Str(url.protocol),
              hostname |-> IF url.hostname = <<>> THEN localhost ELSE Str(url.hostname),
              username |-> IF url.username = <<>> THEN guest ELSE Str(url.username),
              password |-> IF url.password = <<>> THEN guest ELSE Str(url.password),
              port |-> IF url.port = <<>> THEN Whole(5672) ELSE ToNumber(Str(url.port)),
              channelMax |-> OrZero(url.channelMax),
              frameMax |-> OrZero(url.frameMax),
              heartbeat |-> OrZero(url.heartbeat),
              locale |-> en_US,
              vhost |-> IF url.pathname = <<>> THEN slash ELSE Str(url.pathname)])

\* "amqp://localhost", the default of parseConnectionString
DefaultURL ==
  [protocol |-> <<"a", "m", "q", "p">>, hostname |-> <<"l", "o", "c", "a", "l", "h", "o", "s", "t">>, username |-> <<>>, password |-> <<>>,
   port |-> <<>>, pathname |-> <<>>, channelMax |-> Undef, frameMax |-> Undef,
   heartbeat |-> Undef]

\* connection.hasOwnProperty(...) of one of the nine names (locale is not one)
isConnection(own) == own \ {"locale"} # {}

\* getConnections(connection): the nodes, no nodes at all (the function
\* falls off its last else if), or the error thrown
getConnections(connection) ==
  LET one == CASE connection.form = "undefined" -> connectionStringToObject(DefaultURL)
               [] connection.form = "string" -> connectionStringToObject(connection.url)
               [] OTHER -> validateConnection(connection.fields)
  IN  IF connection.form = "object" /\ ~isConnection(connection.own)
        THEN [ok |-> TRUE, defined |-> FALSE, nodes |-> <<>>]
      ELSE IF one.ok THEN [ok |-> TRUE, defined |-> TRUE, nodes |-> <<one.v>>]
      ELSE one

\* `${node}` of an element of Rabbit.nodes
Query(node) ==
  (IF node.frameMax = Whole(0) THEN <<>>
   ELSE <<<<"f", "r", "a", "m", "e", "M", "a", "x", "=">> \o TextOf(node.frameMax)>>)
  \o (IF node.channelMax = Whole(0) THEN <<>>
      ELSE <<<<"c", "h", "a", "n", "n", "e", "l", "M", "a", "x", "=">> \o TextOf(node.channelMax)>>)
  \o (IF node.heartbeat = Whole(0) THEN <<>>
      ELSE <<<<"h", "e", "a", "r", "t", "b", "e", "a", "t", "=">> \o TextOf(node.heartbeat)>>)

RECURSIVE Join(_, _)
Join(parts, sep) ==
  IF Len(parts) = 1 THEN Head(parts)
  ELSE Head(parts) \o sep \o Join(Tail(parts), sep)

toString(node) ==
  LET cs == TextOf(node.protocol) \o <<":", "/", "/">> \o TextOf(node.username) \o <<":", "*", "*", "*", "*", "@">>
            \o TextOf(node.hostname) \o <<":">> \o TextOf(node.port) \o TextOf(node.vhost)
  IN  IF Query(node) # <<>> THEN cs \o <<"?">> \o Join(Query(node), <<"&">>) ELSE cs

\* a JSON form that spreads the node as it is
toJSON_plain(node) == node

toJSON(node) == [node EXCEPT !.password = Str(<<"*", "*", "*", "*">>)]

(***************************************************************************)
(* The construction inputs: a connection object that sets at most          *)
(* MaxFields of its fields, a connection string that differs from          *)
(* amqp://localhost in at most MaxFields of its parts, or nothing.         *)
(***************************************************************************)
MaxFields == 2

ObjectValues ==
  [protocol |-> {Undef, Str(<<>>), amqp, amqps, Str(<<"h", "t", "t", "p">>)},
   hostname |-> {Undef, Str(<<"b", "a", "z">>)},
   username |-> {Undef, Str(<<>>), Str(<<"f", "o", "o">>)},
   password |-> {Undef, Str(<<>>), Str(<<"b", "a", "r">>), Str(<<"q", "u", "x">>)},
   port |-> {Undef, Str(<<>>), Whole(0), Str(<<"1", "2", "3">>), Whole(123), PortMax, Minus(1),
             Str(<<"f", "o", "o">>), Num(FALSE, 1, 0), Str(<<"6", "5", "5", "3", "6">>)},
   channelMax |-> {Undef, Str(<<>>), Whole(0), Str(<<"1", "2">>), ChannelMaxMax, Minus(1),
                   Str(<<"b", "a", "r">>), Num(FALSE, 1, 0)},
   frameMax |-> {Undef, Str(<<>>), Whole(0), Str(<<"1", "2">>), FrameMaxMax, Str(<<"4", "2", "9", "4", "9", "6", "7", "2", "9", "5">>),
                 Minus(1), Str(<<"b", "a", "z">>), Num(FALSE, Limb, 0), Str(<<"4", "2", "9", "4", "9", "6", "7", "2", "9", "6">>)},
   heartbeat |-> {Undef, Str(<<>>), Whole(0), Str(<<"1", "2">>), HeartbeatMax, Minus(1),
                  Str(<<"b", "a", "z">>), Num(FALSE, Limb, 0)},
   locale |-> {Undef, Str(<<"f", "r", "_", "F", "R">>)},
   vhost |-> {Undef, Str(<<>>), slash, Str(<<"/", "p", "l", "o", "p">>), Str(<<"a">>)}]

UrlValues ==
  [protocol |-> {<<"a", "m", "q", "p">>, <<"a", "m", "q", "p", "s">>, <<"h", "t", "t", "p">>},
   hostname |-> {<<"l", "o", "c", "a", "l", "h", "o", "s", "t">>, <<"b", "a", "z">>},
   username |-> {<<>>, <<"f", "o", "o">>},
   password |-> {<<>>, <<"b", "a", "r">>, <<"q", "u", "x">>},
   port |-> {<<>>, <<"0">>, <<"1", "2", "3">>, <<"6", "5", "5", "3", "5">>, <<"6", "5", "5", "3", "6">>, <<"-", "1">>, <<"f", "o", "o">>},
   pathname |-> {<<>>, <<"/">>, <<"/", "p", "l", "o", "p">>},
   channelMax |-> {Undef, Str(<<>>), Str(<<"0">>), Str(<<"1", "2">>), Str(<<"6", "5", "5", "3", "5">>), Str(<<"6", "5", "5", "3", "6">>),
                   Str(<<"-", "1">>), Str(<<"b", "a", "r">>)},
   frameMax |-> {Undef, Str(<<>>), Str(<<"0">>), Str(<<"4", "2", "9", "4", "9", "6", "7", "2", "9", "5">>), Str(<<"4", "2", "9", "4", "9", "6", "7", "2", "9", "6">>),
                 Str(<<"-", "1">>), Str(<<"b", "a", "z">>)},
   heartbeat |-> {Undef, Str(<<>>), Str(<<"0">>), Str(<<"4", "2", "9", "4", "9", "6", "7", "2", "9", "5">>), Str(<<"4", "2", "9", "4", "9", "6", "7", "2", "9", "6">>),
                  Str(<<"-", "1">>), Str(<<"b", "a", "z">>)}]

RECURSIVE Fill(_, _, _)
Fill(base, values, names) ==
  IF names = {} THEN {base}
  ELSE LET n == CHOOSE n \in names : TRUE
       IN  UNION {Fill([base EXCEPT ![n] = v], values, names \ {n}) : v \in values[n]}

UpTo(names) == {own \in SUBSET names : Cardinality(own) <= MaxFields}

Objects ==
  UNION {{[form |-> "object", own |-> own, fields |-> fields] :
            fields \in Fill([n \in FieldNames |-> Undef], ObjectValues, own)} :
         own \in UpTo(FieldNames)}

Strings ==
  UNION {{[form |-> "string", url |-> url] : url \in Fill(DefaultURL, UrlValues, set)} :
         set \in UpTo(UrlParts)}

Inputs == {[form |-> "undefined"]} \cup Objects \cup Strings

\* new Rabbit(connection)
Construct ==
  /\ built = NotBuilt
  /\ built' = getConnections(input)
  /\ UNCHANGED <<input, shown, codecVars>>
  /\ UNCHANGED <<brokerVars, driverVars, chanVars, queueVars, topoVars>>

\* `${broker.nodes[0]}` and JSON.stringify(broker.nodes[0]); the getter maps
\* over the nodes and so fails on a configuration that has none
Render ==
  /\ built # NotBuilt /\ built.ok
  /\ shown = NotShown
  /\ shown' = IF built.defined
                THEN [ok |-> TRUE, text |-> toString(built.nodes[1]),
                      json |-> toJSON(built.nodes[1])]
                ELSE [ok |-> FALSE, error |-> "TypeError"]
  /\ UNCHANGED <<input, built, codecVars>>
  /\ UNCHANGED <<brokerVars, driverVars, chanVars, queueVars, topoVars>>

InitConf ==
  /\ InitCommon
  /\ topology = NoTopology
  /\ nodes = 1
  /\ policy = [retry |-> Infinity, frequency |-> 0]
  /\ dlx = undefined
  /\ input \in Inputs
  /\ built = NotBuilt
  /\ shown = NotShown
  /\ InitIdle

NextConf == Construct \/ Render

SpecConf == InitConf /\ [][NextConf]_vars

\* what the input supplies for a field: for a connection string, the part
\* of the string, unset when the string leaves it out
Supplied(name) ==
  CASE input.form = "object" -> input.fields[name]
    [] input.form = "string" /\ name \in {"channelMax", "frameMax", "heartbeat"} ->
         input.url[name]
    [] input.form = "string" /\ name \in UrlParts ->
         IF input.url[name] = <<>> THEN Undef ELSE Str(input.url[name])
    [] OTHER -> Undef

Unset(v) == v.t = "undefined" \/ v = Str(<<>>)

Complete(node) == \A n \in FieldNames : node[n].t # "undefined"

\* C28: every node that the constructor builds from an accepted input has
\* its ten fields defined, and a username or a password that the input
\* leaves unset or empty is guest in the node.  (An accepted object with
\* none of the nine connection fields gives no nodes at all: Render.)
C28_NodesComplete ==
  built # NotBuilt /\ built.ok /\ built.defined =>
    \A i \in 1..Len(built.nodes) :
      /\ Complete(built.nodes[i])
      /\ Unset(Supplied("username")) => built.nodes[i].username = guest
      /\ Unset(Supplied("password")) => built.nodes[i].password = guest

\* the numeric fields, in the order in which the constructor checks them
NumericFields == <<"port", "channelMax", "frameMax", "heartbeat">>

DefaultOf(f) == IF f = "port" THEN Whole(5672) ELSE Whole(0)

UpperOf(f) ==
  CASE f = "port" -> PortMax
    [] f = "channelMax" -> ChannelMaxMax
    [] OTHER -> FrameMaxMax

FieldError(f) ==
  CASE f = "port" -> "Invalid port"
    [] f = "channelMax" -> "Invalid channelMax"
    [] f = "frameMax" -> "Invalid frameMax"
    [] OTHER -> "Invalid heartbeat"

\* a port written in a connection string is refused by the URL parser
ParserError(f) ==
  IF f = "port" /\ input.form = "string" THEN "Invalid URL" ELSE FieldError(f)

\* the number that a supplied value denotes, by the table of its notations
Notations ==
  { <<<<"0">>, Whole(0)>>, <<<<"1", "2">>, Whole(12)>>, <<<<"1", "2", "3">>, Whole(123)>>,
    <<<<"6", "5", "5", "3", "5">>, Num(FALSE, 0, Limb - 1)>>, <<<<"6", "5", "5", "3", "6">>, Num(FALSE, 1, 0)>>,
    <<<<"4", "2", "9", "4", "9", "6", "7", "2", "9", "5">>, Num(FALSE, Limb - 1, Limb - 1)>>,
    <<<<"4", "2", "9", "4", "9", "6", "7", "2", "9", "6">>, Num(FALSE, Limb, 0)>>, <<<<"-", "1">>, Minus(1)>> }

Denoted(v) ==
  IF v.t = "number" THEN v
  ELSE IF \E n \in Notations : n[1] = v.s THEN (CHOOSE n \in Notations : n[1] = v.s)[2]
  ELSE NaN

Within(n, max) == n.t = "number" /\ (~n.neg \/ IsZero(n)) /\ ~MagLess(max, n)

Valid(f) == Unset(Supplied(f)) \/ Within(Denoted(Supplied(f)), UpperOf(f))

Expected(f) == IF Unset(Supplied(f)) THEN DefaultOf(f) ELSE Denoted(Supplied(f))

ProtocolValid == Supplied("protocol") \in {Undef, Str(<<>>), amqp, amqps}

\* the numeric fields are range-checked, Error(f) being the error of field f
RangeChecked(Error(_)) ==
  built # NotBuilt /\ (built.ok => built.defined) =>
    \A k \in 1..Len(NumericFields) :
      LET f == NumericFields[k]
      IN  /\ built.ok => Valid(f) /\ built.nodes[1][f] = Expected(f)
          /\ ~Valid(f) => ~built.ok
          /\ ~Valid(f) /\ ProtocolValid /\ (\A j \in 1..(k - 1) : Valid(NumericFields[j]))
               => built.error = Error(f)
          /\ Valid(f) /\ ~built.ok => built.error # Error(f)

Passwords == {<<>>, <<"b", "a", "r">>, <<"q", "u", "x">>, <<"s", "3", "c", "r", "e", "t">>}

WithPassword(pw) ==
  CASE input.form = "object" ->
         [input EXCEPT !.own = @ \cup {"password"}, !.fields.password = Str(pw)]
    [] input.form = "string" -> [input EXCEPT !.url.password = pw]
    [] OTHER -> [form |-> "string", url |-> [DefaultURL EXCEPT !.password = pw]]

\* protocol://username:****@ in front of the rendered string
Masked(node) == TextOf(node.protocol) \o <<":", "/", "/">> \o TextOf(node.username) \o <<":", "*", "*", "*", "*", "@">>

Printable ==
  << " ", "!", "\"", "#", "$", "%", "&", "'", "(", ")", "*", "+",
     ",", "-", ".", "/", "0", "1", "2", "3", "4", "5", "6", "7",
     "8", "9", ":", ";", "<", "=", ">", "?", "@", "A", "B", "C",
     "D", "E", "F", "G", "H", "I", "J", "K", "L", "M", "N", "O",
     "P", "Q", "R", "S", "T", "U", "V", "W", "X", "Y", "Z", "[",
     "\\", "]", "^", "_", "GRAVE", "a", "b", "c", "d", "e", "f", "g",
     "h", "i", "j", "k", "l", "m", "n", "o", "p", "q", "r", "s",
     "t", "u", "v", "w", "x", "y", "z", "{", "|", "}", "~" >>

\* what toString() gives for a byte that is no character
Replacement == "U+FFFD"

\* Buffer.from(text) and buffer.toString()
BufferFrom(text) ==
  [i \in 1..Len(text) |-> 31 + CHOOSE c \in 1..Len(Printable) : Printable[c] = text[i]]

BufferToString(bytes) ==
  [i \in 1..Len(bytes) |->
     IF bytes[i] > 31 /\ bytes[i] < 32 + Len(Printable)
       THEN Printable[bytes[i] - 31] ELSE Replacement]

Buffer(bytes) == [t |-> "buffer", bytes |-> bytes]

\* JSON values
JNull == [k |-> "null"]
JBool(b) == [k |-> "bool", b |-> b]
JNum(n) == [k |-> "num", n |-> n]
JStr(s) == [k |-> "str", s |-> s]
JArr(items) == [k |-> "arr", items |-> items]
JObj(members) == [k |-> "obj", members |-> members]
Json(v) == [t |-> "json", v |-> v]

\* JSON.stringify(v), for numbers that are naturals and strings that need
\* no escape
RECURSIVE Stringify(_), StringifyAll(_, _)
Stringify(v) ==
  CASE v.k = "null" -> <<"n", "u", "l", "l">>
    [] v.k = "bool" -> (IF v.b THEN <<"t", "r", "u", "e">> ELSE <<"f", "a", "l", "s", "e">>)
    [] v.k = "num" -> Decimal(v.n \div Limb, v.n % Limb)
    [] v.k = "str" -> <<"\"">> \o v.s \o <<"\"">>
    [] v.k = "arr" -> <<"[">> \o StringifyAll(v.items, FALSE) \o <<"]">>
    [] OTHER -> <<"{">> \o StringifyAll(v.members, TRUE) \o <<"}">>

StringifyAll(items, keyed) ==
  IF items = <<>> THEN <<>>
  ELSE (IF keyed
          THEN <<"\"">> \o Head(items)[1] \o <<"\"", ":">> \o Stringify(Head(items)[2])
          ELSE Stringify(Head(items)))
       \o (IF Len(items) > 1 THEN <<",">> ELSE <<>>)
       \o StringifyAll(Tail(items), keyed)

\* fss(obj): JSON.stringify, which does not throw on these values
fss(obj) == Stringify(obj)

\* JSON.parse(text): the value, or a SyntaxError
SyntaxError == [ok |-> FALSE]
Parsed(v, next) == [ok |-> TRUE, v |-> v, next |-> next]

At(s, i) == IF i <= Len(s) THEN s[i] ELSE "EOF"
Lit(s, i, word) == i + Len(word) - 1 <= Len(s) /\ SubSeq(s, i, i + Len(word) - 1) = word

RECURSIVE DigitsEnd(_, _)
DigitsEnd(s, i) == IF IsDigit(At(s, i)) THEN DigitsEnd(s, i + 1) ELSE i

RECURSIVE NatOf(_)
NatOf(ds) == IF ds = <<>> THEN 0 ELSE NatOf(SubSeq(ds, 1, Len(ds) - 1)) * 10 + DigitOf(ds[Len(ds)])

\* the closing quote of the string that starts after position i - 1, or 0
RECURSIVE StringEnd(_, _)
StringEnd(s, i) ==
  IF i > Len(s) \/ s[i] = "\\" \/ s[i] = Replacement THEN 0
  ELSE IF s[i] = "\"" THEN i
  ELSE StringEnd(s, i + 1)

\* a member with the same key replaces the earlier one
Put(members, key, v) ==
  IF \E m \in 1..Len(members) : members[m][1] = key
    THEN [m \in 1..Len(members) |-> IF members[m][1] = key THEN <<key, v>> ELSE members[m]]
    ELSE Append(members, <<key, v>>)

RECURSIVE ParseValue(_, _), ParseItems(_, _, _), ParseMembers(_, _, _)
ParseValue(s, i) ==
  CASE Lit(s, i, <<"n", "u", "l", "l">>) -> Parsed(JNull, i + 4)
    [] Lit(s, i, <<"t", "r", "u", "e">>) -> Parsed(JBool(TRUE), i + 4)
    [] Lit(s, i, <<"f", "a", "l", "s", "e">>) -> Parsed(JBool(FALSE), i + 5)
    [] IsDigit(At(s, i)) ->
         LET e == DigitsEnd(s, i)
         IN  IF s[i] = "0" /\ e > i + 1 THEN SyntaxError
             ELSE Parsed(JNum(NatOf(SubSeq(s, i, e - 1))), e)
    [] At(s, i) = "\"" ->
         LET e == StringEnd(s, i + 1)
         IN  IF e = 0 THEN SyntaxError ELSE Parsed(JStr(SubSeq(s, i + 1, e - 1)), e + 1)
    [] At(s, i) = "[" ->
         IF At(s, i + 1) = "]" THEN Parsed(JArr(<<>>), i + 2) ELSE ParseItems(s, i + 1, <<>>)
    [] At(s, i) = "{" ->
         IF At(s, i + 1) = "}" THEN Parsed(JObj(<<>>), i + 2) ELSE ParseMembers(s, i + 1, <<>>)
    [] OTHER -> SyntaxError

ParseItems(s, i, acc) ==
  LET r == ParseValue(s, i)
  IN  IF ~r.ok THEN SyntaxError
      ELSE IF At(s, r.next) = "," THEN ParseItems(s, r.next + 1, Append(acc, r.v))
      ELSE IF At(s, r.next) = "]" THEN Parsed(JArr(Append(acc, r.v)), r.next + 1)
      ELSE SyntaxError

ParseMembers(s, i, acc) ==
  LET e == IF At(s, i) = "\"" THEN StringEnd(s, i + 1) ELSE 0
      r == ParseValue(s, e + 2)
  IN  IF e = 0 \/ At(s, e + 1) # ":" \/ ~r.ok THEN SyntaxError
      ELSE IF At(s, r.next) = ","
        THEN ParseMembers(s, r.next + 1, Put(acc, SubSeq(s, i + 1, e - 1), r.v))
      ELSE IF At(s, r.next) = "}"
        THEN Parsed(JObj(Put(acc, SubSeq(s, i + 1, e - 1), r.v)), r.next + 1)
      ELSE SyntaxError

JSONparse(text) ==
  LET r == ParseValue(text, 1)
  IN  IF r.ok /\ r.next = Len(text) + 1 THEN [ok |-> TRUE, v |-> r.v] ELSE SyntaxError

application_json == Str(<<"a", "p", "p", "l", "i", "c", "a", "t", "i", "o", "n", "/", "j", "s", "o", "n">>)
text_plain == Str(<<"t", "e", "x", "t", "/", "p", "l", "a", "i", "n">>)

\* a prepareMessage that stamps every payload it encodes as JSON
prepareMessage_stamp(message, options) ==
  IF message.t = "buffer" THEN [content |-> message.bytes, options |-> options]
  ELSE [content |-> BufferFrom(fss(message.v)),
        options |-> [options EXCEPT !.contentType = application_json]]

\* prepareMessage(message, options): the content and the options given to
\* the driver (of the options, the contentType)
prepareMessage(message, options) ==
  IF message.t = "buffer" THEN [content |-> message.bytes, options |-> options]
  ELSE IF JsTruthy(options.contentType) /\ options.contentType # application_json
    THEN [content |-> BufferFrom(fss(message.v)), options |-> options]
  ELSE [content |-> BufferFrom(fss(message.v)),
        options |-> [options EXCEPT !.contentType = application_json]]

(***************************************************************************)
(* The payloads and options of the pub() / send() calls: scalars, arrays   *)
(* and objects of at most MaxItems scalars, and a few Buffers, of which    *)
(* some hold JSON text and some do not.                                    *)
(***************************************************************************)
MaxItems == 2

Scalars == {JNull, JBool(TRUE), JNum(0), JNum(12), JStr(<<"b", "a", "r">>)}
Keys == <<<<"f", "o", "o">>, <<"n">>, <<"x">>>>

JsonValues ==
  Scalars
  \cup {JArr(items) : items \in SeqsUpTo(Scalars, MaxItems)}
  \cup {JObj([m \in 1..Len(items) |-> <<Keys[m], items[m]>>]) :
          items \in SeqsUpTo(Scalars, MaxItems)}

Buffers ==
  { <<>>, <<255, 0>>, BufferFrom(<<"h", "e", "l", "l", "o">>), BufferFrom(<<"1", "2">>),
    BufferFrom(<<"{", "\"", "f", "o", "o", "\"", ":", "\"", "b", "a", "r", "\"", "}">>), BufferFrom(<<"{", "\"", "f", "o", "o", "\"", ":">>) }

Payloads == {Json(v) : v \in JsonValues} \cup {Buffer(b) : b \in Buffers}

ContentTypes == {Undef, Str(<<>>), application_json, text_plain}

\* Exchange.pub / Queue.send: prepareMessage, then publish / sendToQueue
Send ==
  /\ wire = NoMessage
  /\ wire' = prepareMessage(outbound.message, outbound.options)
  /\ UNCHANGED <<outbound, inbound>>
  /\ UNCHANGED <<brokerVars, driverVars, chanVars, queueVars, topoVars, input, built, shown>>

\* the consumer callback of Queue.sub on the delivery of what was sent, with
\* handlers that return or throw.  JSON.parse stands before makeAck and
\* before the try: when it throws, the callback's promise rejects, no
\* handler has run and nothing settles the delivery.
Receive(handler) ==
  /\ wire # NoMessage /\ inbound = NoMessage
  /\ LET contentType == wire.options.contentType
         parsed == JSONparse(BufferToString(wire.content))
     IN  inbound' =
           IF contentType = application_json /\ ~parsed.ok
             THEN [ok |-> FALSE, ran |-> FALSE, settle |-> "none"]
             ELSE [ok |-> TRUE,
                   content |-> IF contentType = application_json
                                 THEN Json(parsed.v) ELSE Buffer(wire.content),
                   contentType |-> contentType,
                   ran |-> TRUE,
                   settle |-> IF handler = "returns" THEN "ack" ELSE "nack"]
  /\ UNCHANGED <<outbound, wire>>
  /\ UNCHANGED <<brokerVars, driverVars, chanVars, queueVars, topoVars, input, built, shown>>

InitCodec ==
  /\ InitCommon
  /\ topology = NoTopology
  /\ nodes = 1
  /\ policy = [retry |-> Infinity, frequency |-> 0]
  /\ dlx = undefined
  /\ input = [form |-> "undefined"] /\ built = [state |-> "loaded"] /\ shown = NotShown
  /\ outbound \in [message : Payloads, options : [contentType : ContentTypes]]
  /\ wire = NoMessage
  /\ inbound = NoMessage

NextCodec == Send \/ \E handler \in {"returns", "throws"} : Receive(handler)

SpecCodec == InitCodec /\ [][NextCodec]_vars

\* the caller gave a contentType (an empty string is none)
Given(contentType) == JsTruthy(contentType)

C39_BadJsonIsNacked ==
  /\ inbound # NoMessage
  /\ wire.options.contentType = application_json
  /\ ~JSONparse(BufferToString(wire.content)).ok
  => inbound.settle = "nack" /\ ~inbound.ran

\* C32: the next that the last handler receives only proceeds: when every
\* handler before the last awaits a plain next() and the last handler calls
\* next() and then throws or rejects, every handler has run once and the
\* delivery is nacked.
C32_TerminalNextIsNoop ==
  LET n == Len(chain)
  IN  /\ last # NoRun /\ n >= 1
      /\ UsableChannel("__read__")
      /\ \A j \in 1..(n - 1) :
           chain[j] = [sigs |-> <<"undef">>, mode |-> "await", end |-> "return"]
      /\ chain[n].sigs = <<"undef">> /\ chain[n].end = "throw"
      => /\ last.inv = [j \in 1..n |-> j]
         /\ last.ops = <<ChannelNack(FALSE, ~Truthy(dlx))>>

\* C33: a connect that ran alone and was rejected has made (r + 1) * N
\* dials, r being its effective retry, whatever the cursor was when it
\* started (a reconnect after a connection to another endpoint than the
\* first included).
C33_FullPassesFromAnyCursor ==
  \A f \in Finished : ~f.ok /\ f.alone => f.n = (f.r0 + 1) * nodes

(***************************************************************************)
(* Overlapping connect() calls: the broker has room for MaxOverlap         *)
(* connect() calls in progress, entered by the user, by Channel.connect()  *)
(* or by the close listener.                                               *)
(***************************************************************************)
InitOverlap ==
  /\ InitBase
  /\ loops = [l \in 1..MaxOverlap |-> Idle]
  /\ InitLoaded
  /\ topology = NoTopology
  /\ nodes = 1
  /\ policy = [retry |-> Infinity, frequency |-> 0]
  /\ dlx = undefined

NextOverlap ==
  \/ UserConnect(<<>>)
  \/ \E name \in {"__read__", "__write__"} : ChanConnect(name)
  \/ \E l \in 1..MaxOverlap : DialOk(l) \/ ResurrectDone(l)
  \/ \E i \in 1..MaxPend : CreateChannelOk(i) \/ CreateChannelFail(i)
  \/ \E c \in 1..MaxConns : ConnDrop(c) \/ ConnCloseEvent(c)
  \/ \E u \in 1..MaxChans : onClose(u)

SpecOverlap == InitOverlap /\ [][NextOverlap]_vars

\* C34: the driver holds no open connection but the one the broker holds,
\* however the connect() calls overlap.
C34_SingleConnection ==
  /\ Cardinality(live) <= 1
  /\ \A c \in live : c = client

\* the open underlying channels that were created for entity name
OpenOf(name) == {u \in 1..Len(uchans) : uchans[u].owner = name /\ uchans[u].open}

\* C35: at any time at most one open underlying channel was created for a
\* Channel entity, and it is the one the entity holds.
C35_OneOpenChannel ==
  \A name \in ChanNames :
    /\ Cardinality(OpenOf(name)) <= 1
    /\ \A u \in OpenOf(name) : channels[name]._channel \in {0, u}

(***************************************************************************)
(* Channels that the user closes, over a connection that may drop.         *)
(***************************************************************************)
NextChanClosed ==
  \/ UserConnect(<<>>)
  \/ \E l \in 1..MaxLoops : DialOk(l) \/ ResurrectDone(l)
  \/ \E name \in {"__read__", "write"} : ChanConnect(name) \/ ChanClose(name)
  \/ \E i \in 1..MaxPend : CreateChannelOk(i) \/ CreateChannelFail(i)
  \/ \E u \in 1..MaxChans : onClose(u)
  \/ \E c \in 1..MaxConns : ConnDrop(c) \/ ConnCloseEvent(c)

SpecChanClosed == InitChan /\ [][NextChanClosed]_vars

\* C36: for a channel that the user closed (closing is set until the next
\* createChannel reply) no createChannel is in flight but the one of a
\* connect() call of the user.
C36_ClosedStaysClosed ==
  \A i \in 1..Len(pend) :
    channels[pend[i].chan].closing => pend[i].via = "connect"

\* C37: while the queue holds a consumer tag and "__read__" holds an open
\* underlying channel, the consumer of that tag is active on that channel.
C37_TagHasConsumer ==
  consumerTag # 0 /\ UsableChannel("__read__") =>
    /\ consumers[consumerTag].on
    /\ consumers[consumerTag].uch = channels["__read__"]._channel

\* C40: every ack and nack of a delivery went to the underlying channel
\* that delivered it.
C40_AckOnDeliveringChannel ==
  \A i \in 1..Len(deliveries) :
    deliveries[i].state = "settled" =>
      \A k \in 1..Len(deliveries[i].ops) : deliveries[i].ops[k].on = deliveries[i].uch

\* a connect() call of the user or of a channel is accepted in this step
ExplicitConnectAccepted ==
  \E l \in DOMAIN loops :
    /\ Active(l) /\ loops[l].pc = "dial" /\ loops[l].owner # "auto"
    /\ dials[loops[l].dial].res = "pending" /\ dials'[loops[l].dial].res = "ok"

\* C38: a connect() call of the user or of a channel that is accepted leaves
\* the closing flag clear, also when close() had been called before it, so
\* that the close listener of the new connection redials when it drops.
C38_ClosingCleared == [][ExplicitConnectAccepted => ~closing']_vars
=============================================================================
